---- MODULE Spec2Model ----
(***************************************************************************)
(* Admission pipeline of the faucet server: Handler.GetChallenge,          *)
(* Handler.RequestTokens and Handler.handleBothTokensRequest               *)
(* (internal/api/handlers.go), running as concurrent invocations over one  *)
(* shared counter store and one chain client per network.                  *)
(*                                                                         *)
(* Every counter-store call and every chain call is one atomic step of an  *)
(* invocation; the code between two calls is local and belongs to the step *)
(* of the call before it.  The counter store (internal/cache) and the      *)
(* proof-of-work package (internal/pow) are modelled from their contract.  *)
(*                                                                         *)
(* Time is counted in clock ticks.  Every key of the store carries the     *)
(* number of ticks it has left to live; 0 is the absent key.  The clock    *)
(* ticks while no invocation is running.                                   *)
(***************************************************************************)
EXTENDS Integers, Sequences, FiniteSets, TLC

\* ------------------------------------------------------------ bounds

\* Concurrent handler invocations, and RequestTokens invocations in a run.
NReq == 2
MaxInvocations == 2
\* Store and chain calls that fail in a run.
MaxFaults == 1
\* Challenge ids the generator can hand out.
NChallenges == 2
\* Clock ticks in the challenge TTL, in one hour, in 24 hours.
ChallengeTicks == 1
HourTicks == 1
DayTicks == 2
\* Configuration values (config.json) of the modelled deployment: the daily
\* cap per IP and the challenge issuance cap per IP and hour.
MaxRequestsPerDayIP == 2
MaxChallengesPerHour == 2
\* Binary digits of the wei scale (a drip unit is 2^WeiExp wei), and the
\* faucet balance of every account at start, in wei.
WeiExp == 1
InitBalance == 8
\* The balance guard's inputs in SpecGuard: amounts up to GuardMaxAmount drip
\* units, balances up to GuardMaxWei wei.
GuardMaxAmount == 9
GuardMaxWei == 25
\* SpecChallenge: GetChallenge invocations that run at once, and invocations
\* (and challenge ids) in all.
NIssuers == 3
MaxIssuerCalls == 4
\* SpecRoute: the requests of one caller within an hour.
MaxRouteRequests == 4
\* SpecNonce: TransferTokens calls that run at once on the Ethereum client,
\* and calls in all.
NTransfers == 2
MaxTransferCalls == 3
\* SpecWait: the failed receipt queries WaitForTransaction counts (the count
\* stays at the bound, the loop does not stop there).
MaxPolls == 3

\* ------------------------------------------------------------ configuration

Slots == 1..NReq
IPs == {"ip1", "ip2"}
\* The callers that send requests in Spec.
Callers == {"ip1"}
ChalIds == 1..NChallenges
Nonces == {0, 1}

\* Handler.chains as main() registers it.
Chains == {"starknet", "ethereum"}
\* Network names a request body can carry.
NetworkInputs == {"", "starknet", "ethereum", "polygon"}
\* Token names a request body can carry.
TokenInputs == {"STRK", "ETH", "eth", "BOTH", "both", "DOGE"}
Tokens == {"STRK", "ETH"}

\* strings.ToUpper on the token names above.
ToUpper(s) ==
    CASE s = "eth" -> "ETH"
      [] s = "both" -> "BOTH"
      [] OTHER -> s

\* NewMultiChainHandler: starknet if registered, else ethereum.
DefaultNetwork ==
    IF "starknet" \in Chains THEN "starknet"
    ELSE IF "ethereum" \in Chains THEN "ethereum"
    ELSE CHOOSE n \in Chains : TRUE

\* getChain: the registry key a request's network resolves to.
ChainKey(network) == IF network = "" THEN DefaultNetwork ELSE network

\* getChain succeeds.
GetChainOK(network) == ChainKey(network) \in Chains

\* The network name used in throttle keys (RequestTokens, lines 250-253).
ThrottleNetwork(network) == IF network = "" THEN DefaultNetwork ELSE network

\* A faulty variant of GetSupportedTokens: the first token only.
GetSupportedTokensFirst(chain) ==
    IF chain = "ethereum" THEN <<"ETH">> ELSE <<"STRK">>

\* chain.GetSupportedTokens, in order.
GetSupportedTokens(chain) ==
    IF chain = "ethereum" THEN <<"ETH">> ELSE <<"STRK", "ETH">>

SeqRange(s) == {s[i] : i \in 1..Len(s)}

\* A faulty variant of ValidateToken: every token name is accepted.
ValidateTokenAny(chain, token) == TRUE

\* chain.ValidateToken.
ValidateToken(chain, token) ==
    IF chain = "ethereum" THEN ToUpper(token) = "ETH"
    ELSE token \in SeqRange(GetSupportedTokens(chain))

\* chainProvider.GetDripAmount, parsed by strconv.ParseFloat; in drip units.
GetDripAmount(chain, token) ==
    IF token = "STRK" THEN 2 ELSE 1

\* chainProvider.GetMaxTokensPerHour / GetMaxTokensPerDay, in drip units.
\* Each chain configures its own limits for the tokens it offers.
GetMaxTokensPerHour(chain, token) ==
    IF token = "STRK" THEN 3 ELSE IF chain = "ethereum" THEN 2 ELSE 1

GetMaxTokensPerDay(chain, token) ==
    IF token = "STRK" THEN 5 ELSE IF chain = "ethereum" THEN 2 ELSE 1

\* chainProvider.GetMinBalanceProtectPct: the reserve percentage.
GetMinBalanceProtectPct(chain) == 50

\* The faucet accounts: one per chain and token it supports.
Accounts ==
    {<<n, t>> : n \in Chains, t \in Tokens} \ {<<"ethereum", "STRK">>}

ThrottleKeys == {<<ip, a[1], a[2]>> : ip \in IPs, a \in Accounts}


\* ------------------------------------------------------------ state

VARIABLES
    req,        \* per slot: the invocation running in it (pc and locals)
    daily,      \* store: per IP the daily counter [n, ttl]
    cooldown,   \* store: per IP the cooldown marker (ticks left, 0 absent)
    throttle,   \* store: per (ip, network, token) the throttle marker
    ghour,      \* store: per token the global hourly total [v, ttl]
    gday,       \* store: per token the global daily total [v, ttl]
    chal,       \* store: per challenge id the ticks left (0 absent)
    issued,     \* ids the generator has handed out
    chalCount,  \* store: per IP the issuance counter [n, ttl]
    balance,    \* chain: per (network, token) the faucet balance, in wei
    started,    \* RequestTokens invocations started so far
    faults,     \* store and chain calls that have failed so far
    xfers,      \* history: per throttle key the ages, in ticks, of its
                \* transfers less than an hour old
    accepted,   \* history: per challenge id the times the PoW gate accepted it
    guard,      \* SpecGuard: the balance guard's inputs and its answers
    gc,         \* SpecChallenge: the GetChallenge invocations of one caller
    wait,       \* SpecWait: one WaitForTransaction call and its context
    pow,        \* SpecPoW: a deployment, a submission and the PoW gate's answer
    find,       \* SpecConfig: a file system and what FindConfigFile returned
    query,      \* SpecQuery: the last query endpoint call and its answer
    route,      \* SpecRoute: a request's network and the keys it resolves to
    eth         \* SpecNonce: the Ethereum node and the TransferTokens calls

vars == <<req, daily, cooldown, throttle, ghour, gday, chal, issued,
          chalCount, balance, started, faults, xfers, accepted, guard,
          gc, wait, pow, find, query, route, eth>>

storeVars == <<daily, cooldown, throttle, ghour, gday, chal, issued, chalCount>>

\* The variables of the specifications of single components.
partVars == <<gc, wait, pow, find, query, route, eth>>

\* A slot: pc, the request's fields (ip, network, token, chal), the loop
\* index, transactions (txs), failedToken (failed), the daily units the
\* invocation passed to IncrementIPDailyLimit (charged), the response
\* (status, msg and the token it names) and the calls made so far with
\* what they returned (log: a set of <<call, token, outcome>>).
IdleReq ==
    [pc |-> "idle", ip |-> "", network |-> "", token |-> "", chal |-> 0,
     idx |-> 0, txs |-> <<>>, failed |-> "", charged |-> 0, status |-> 0,
     msg |-> "", named |-> "", log |-> {}]

\* The balance guard is not under test.
NoGuard == [pc |-> "none"]

\* No GetChallenge invocation, WaitForTransaction call or PoW submission is
\* under test.
NoIssuers == <<>>
NoWait == [pc |-> "none"]
NoPow == [pc |-> "none"]

\* FindConfigFile, the query endpoints, the network resolution and the
\* Ethereum client are not under test.
NoFind == [pc |-> "none"]
NoQuery == [pc |-> "none"]
NoRoute == [pc |-> "none"]
NoEth == [pc |-> "none"]

Init ==
    /\ req = [r \in Slots |-> IdleReq]
    /\ daily = [ip \in IPs |-> [n |-> 0, ttl |-> 0]]
    /\ cooldown = [ip \in IPs |-> 0]
    /\ throttle = [k \in ThrottleKeys |-> 0]
    /\ ghour = [t \in Tokens |-> [v |-> 0, ttl |-> 0]]
    /\ gday = [t \in Tokens |-> [v |-> 0, ttl |-> 0]]
    /\ chal = [c \in ChalIds |-> 0]
    /\ issued = {}
    /\ chalCount = [ip \in IPs |-> [n |-> 0, ttl |-> 0]]
    /\ balance = [a \in Accounts |-> InitBalance]
    /\ started = 0
    /\ faults = 0
    /\ xfers = [k \in ThrottleKeys |-> <<>>]
    /\ accepted = [c \in ChalIds |-> 0]
    /\ guard = NoGuard
    /\ gc = NoIssuers
    /\ wait = NoWait
    /\ pow = NoPow
    /\ find = NoFind /\ query = NoQuery /\ route = NoRoute /\ eth = NoEth

\* The outcomes a store or chain call can have now: it may fail while the
\* run's failures are below MaxFaults.
Failing == IF faults < MaxFaults THEN BOOLEAN ELSE {FALSE}

\* The call failed (err) or returned.
Failed(err) == faults' = IF err THEN faults + 1 ELSE faults

\* ------------------------------------------------------------ counter store

\* redis.CheckIPDailyLimit: (canRequest, currentCount, cooldownEnd).
CheckIPDailyLimit(ip) ==
    [canRequest |-> cooldown[ip] = 0 /\ daily[ip].n < MaxRequestsPerDayIP,
     currentCount |-> daily[ip].n,
     cooldownEnd |-> cooldown[ip]]

\* redis.IncrementIPDailyLimit: the counter after adding units; a new counter
\* lives until the day boundary, left ticks away.
DailyAfterIncrement(ip, units, left) ==
    [n |-> daily[ip].n + units,
     ttl |-> IF daily[ip].ttl = 0 THEN left ELSE daily[ip].ttl]

IncrementIPDailyLimit(ip, units, left) ==
    /\ daily' = [daily EXCEPT ![ip] = DailyAfterIncrement(ip, units, left)]
    /\ cooldown' =
         IF DailyAfterIncrement(ip, units, left).n >= MaxRequestsPerDayIP
         THEN [cooldown EXCEPT ![ip] = DayTicks]
         ELSE cooldown

\* redis.CheckTokenHourlyThrottle: allowed iff no marker for the key.
CheckTokenHourlyThrottle(ip, network, token) ==
    throttle[<<ip, network, token>>] = 0

\* redis.SetTokenHourlyThrottle: the marker with a one-hour TTL.
SetTokenHourlyThrottle(ip, network, token) ==
    throttle' = [throttle EXCEPT ![<<ip, network, token>>] = HourTicks]

\* redis.TrackGlobalDistribution: the check.
CanDistribute(token, amount, maxHourly, maxDaily) ==
    /\ ghour[token].v + amount <= maxHourly
    /\ gday[token].v + amount <= maxDaily

\* redis.TrackGlobalDistribution: the increment, in the same atomic call.
TrackGlobalDistribution(token, amount, maxHourly, maxDaily) ==
    IF CanDistribute(token, amount, maxHourly, maxDaily)
    THEN /\ ghour' = [ghour EXCEPT ![token] =
                [v |-> @.v + amount,
                 ttl |-> IF @.ttl = 0 THEN HourTicks ELSE @.ttl]]
         /\ gday' = [gday EXCEPT ![token] =
                [v |-> @.v + amount,
                 ttl |-> IF @.ttl = 0 THEN DayTicks ELSE @.ttl]]
    ELSE UNCHANGED <<ghour, gday>>

\* redis.GetChallenge: the stored challenge, 0 when the key is absent.
StoredChallenge(id) == IF chal[id] > 0 THEN id ELSE 0

\* redis.DeleteChallenge.
DeleteChallenge(id) == chal' = [chal EXCEPT ![id] = 0]

\* redis.StoreChallenge with the configured TTL.
StoreChallenge(id) == chal' = [chal EXCEPT ![id] = ChallengeTicks]

\* redis.CheckChallengeRateLimit / IncrementChallengeRateLimit.
CheckChallengeRateLimit(ip) == chalCount[ip].n < MaxChallengesPerHour

IncrementChallengeRateLimit(ip) ==
    chalCount' = [chalCount EXCEPT ![ip] =
        [n |-> @.n + 1, ttl |-> IF @.ttl = 0 THEN HourTicks ELSE @.ttl]]

\* powGenerator.VerifyPoW: the hash of (challenge, nonce) meets the target.
\* Every challenge has one solving nonce among Nonces.
VerifyPoW(challenge, nonce) == (challenge + nonce) % 2 = 0

\* ------------------------------------------------------------ chain

\* Balance units (wei) in one drip unit.
WeiPerUnit == 2 ^ WeiExp

\* chains.AmountToWei: drip units to the chain's balance units (wei).
AmountToWei(amount) == amount * WeiPerUnit

\* chain.TransferTokens can succeed only if the account holds the amount.
CanTransfer(chain, token, amountWei) == balance[<<chain, token>>] >= amountWei

\* ------------------------------------------------------------ float64
\* The balance guard computes in float64.  A float64 with a short
\* significand (every balance and amount of the model) is kept as the
\* fraction n / 2^k; a float64 in general is kept as its significand m, a
\* sequence of Significand binary digits with the first one 1, and the
\* exponent e of its last digit: the value is m * 2^e.  Zero has no digits.

\* Binary digits in a float64 significand.
Significand == 53

Float64Zero == [m |-> <<>>, e |-> 0]

\* The binary digits of n >= 0, first digit first.
Bits(n) ==
    LET len == CHOOSE l \in 0..30 : n < 2 ^ l /\ (l = 0 \/ n >= 2 ^ (l - 1))
    IN [i \in 1..len |-> (n \div 2 ^ (len - i)) % 2]

\* The digits b plus one.
Incr(b) ==
    IF \A i \in 1..Len(b) : b[i] = 1
    THEN <<1>> \o [i \in 1..Len(b) |-> 0]
    ELSE LET last == CHOOSE j \in 1..Len(b) :
                        b[j] = 0 /\ \A i \in (j + 1)..Len(b) : b[i] = 1
         IN [i \in 1..Len(b) |->
                IF i < last THEN b[i] ELSE IF i = last THEN 1 ELSE 0]

\* The digits b times n: the digits from place i up are still to multiply,
\* carry is carried into place i, low holds the product's digits below it.
RECURSIVE MulFrom(_, _, _, _, _)
MulFrom(b, i, n, carry, low) ==
    IF i = 0 THEN Bits(carry) \o low
    ELSE MulFrom(b, i - 1, n, (b[i] * n + carry) \div 2,
                 <<(b[i] * n + carry) % 2>> \o low)

MulBits(b, n) == MulFrom(b, Len(b), n, 0, <<>>)

\* Round to nearest, ties to even: the float64 of the exact value
\* b * 2^e (+ something below the last digit if sticky).
Float64Round(b, e, sticky) ==
    IF Len(b) <= Significand
    THEN [m |-> b \o [i \in 1..(Significand - Len(b)) |-> 0],
          e |-> e - (Significand - Len(b))]
    ELSE LET keep == SubSeq(b, 1, Significand)
             rest == sticky \/ \E i \in (Significand + 2)..Len(b) : b[i] = 1
             up == b[Significand + 1] = 1 /\ (rest \/ keep[Significand] = 1)
             e2 == e + Len(b) - Significand
             inc == Incr(keep)
         IN IF ~up THEN [m |-> keep, e |-> e2]
            ELSE IF Len(inc) > Significand
                 THEN [m |-> SubSeq(inc, 1, Significand), e |-> e2 + 1]
            ELSE [m |-> inc, e |-> e2]

\* Long division r / d continued below the binary point: b the quotient's
\* digits so far, k the digits produced below the point.
RECURSIVE QuoBits(_, _, _, _)
QuoBits(r, d, b, k) ==
    IF Len(b) > Significand THEN [b |-> b, k |-> k, sticky |-> r # 0]
    ELSE LET bit == IF 2 * r >= d THEN 1 ELSE 0
         IN QuoBits(2 * r - bit * d, d,
                    IF b = <<>> /\ bit = 0 THEN b ELSE Append(b, bit), k + 1)

\* float64(p) / float64(d) for integers p >= 0, d > 0.
Float64Quo(p, d) ==
    IF p = 0 THEN Float64Zero
    ELSE LET q == QuoBits(p % d, d, Bits(p \div d), 0)
         IN Float64Round(q.b, 0 - q.k, q.sticky)

\* x * f for a short x >= 0.
Float64Mul(x, f) ==
    IF x.n = 0 \/ f.m = <<>> THEN Float64Zero
    ELSE Float64Round(MulBits(f.m, x.n), f.e - x.k, FALSE)

\* x - y for short x and y: the difference is short, the result is exact.
Float64Sub(x, y) ==
    LET k == IF x.k > y.k THEN x.k ELSE y.k
    IN [n |-> x.n * 2 ^ (k - x.k) - y.n * 2 ^ (k - y.k), k |-> k]

\* x < f for a short x and f >= 0.
Float64Less(x, f) ==
    IF x.n <= 0 THEN x.n < 0 \/ f.m # <<>>
    ELSE IF f.m = <<>> THEN FALSE
    ELSE LET g == Float64Round(Bits(x.n), 0 - x.k, FALSE)
         IN \/ g.e < f.e
            \/ /\ g.e = f.e
               /\ \E i \in 1..Significand :
                    /\ g.m[i] < f.m[i]
                    /\ \A j \in 1..(i - 1) : g.m[j] = f.m[j]

\* strconv.ParseFloat of a drip amount: a whole number of drip units.
ParseFloat(amount) == [n |-> amount, k |-> 0]

\* chains.WeiToAmount: wei as an amount in drip units, wei / WeiPerUnit.
WeiToAmount(wei) == [n |-> wei, k |-> WeiExp]

\* float64(pct) / 100.0 for every percentage.
MinBalancePct == [pct \in 0..100 |-> Float64Quo(pct, 100)]

\* Lines 361-366: balanceAfterTransfer < minBalanceRequired.
BalanceProtection(currentBalanceFloat, amountFloat, pct) ==
    LET minBalancePct == MinBalancePct[pct]
        minBalanceRequired == Float64Mul(currentBalanceFloat, minBalancePct)
        balanceAfterTransfer == Float64Sub(currentBalanceFloat, amountFloat)
    IN Float64Less(balanceAfterTransfer, minBalanceRequired)

\* Lines 585-590: the same test in handleBothTokensRequest.
BalanceProtectionBoth(currentBalanceFloat, amountFloat, pct) ==
    LET minBalancePct == MinBalancePct[pct]
        minBalanceRequired == Float64Mul(currentBalanceFloat, minBalancePct)
        balanceAfterTransfer == Float64Sub(currentBalanceFloat, amountFloat)
    IN Float64Less(balanceAfterTransfer, minBalanceRequired)

\* ------------------------------------------------------------ RequestTokens

\* The response: the invocation ends, what it did is kept with it.
Reply(q, status, msg, named) ==
    [q EXCEPT !.pc = "done", !.idx = 0, !.chal = 0, !.status = status,
              !.msg = msg, !.named = named]

\* The call op about tok returned out to the invocation: "err" for an
\* error, else "ok" (allowed, found, done) or "deny".
Traced(q, op, tok, out) ==
    [q EXCEPT !.log = @ \cup {<<op, tok, out>>}]

\* The chain a running invocation resolved, and its throttle network.
ChainOf(q) == ChainKey(q.network)
NetOf(q) == ThrottleNetwork(q.network)

\* A faulty variant of RequestCost: BOTH costs one unit.
RequestCostOne(token) == 1

\* requestCost: 1 for a single token, 2 for BOTH.
RequestCost(token) == IF token = "BOTH" THEN 2 ELSE 1

\* Lines 168-202: parse the body, resolve the chain, validate address and
\* token (BOTH is not validated).  No store or chain call is made.  A new
\* invocation runs in the first free slot.
RT_Validate(r, ip, bodyOK, network, addrOK, token) ==
    /\ req[r].pc = "idle"
    /\ started < MaxInvocations
    /\ \A s \in Slots : s < r => req[s].pc # "idle"
    /\ started' = started + 1
    /\ LET q == [IdleReq EXCEPT !.ip = ip]
           upper == ToUpper(token)
           valid == [q EXCEPT !.network = ChainKey(network), !.token = upper,
                              !.log = {<<"getChain", "", "ok">>,
                                       <<"ValidateAddress", "", "ok">>}]
       IN req' = [req EXCEPT ![r] =
            IF ~bodyOK THEN Reply(q, 400, "Invalid request body", "")
            ELSE IF ~GetChainOK(network)
                 THEN Reply(q, 400, "unsupported network", "")
            ELSE IF ~addrOK THEN Reply(q, 400, "Invalid address", "")
            ELSE IF upper = "BOTH" THEN [valid EXCEPT !.pc = "daily"]
            ELSE IF ~ValidateToken(ChainKey(network), upper)
                 THEN Reply(q, 400, "invalid token", "")
            ELSE [Traced(valid, "ValidateToken", upper, "ok")
                     EXCEPT !.pc = "daily"]]
    /\ UNCHANGED <<guard, partVars, storeVars, balance, faults, xfers, accepted>>

\* The retry-after hint the text of a response carries: the remaining
\* cooldown (lines 218-226), the minutes to the end of the throttle (lines
\* 267-269, 285-287), "an hour" (line 344); no other response names a time.
RetryHint(msg) ==
    CASE msg = "DAILY LIMIT cooldown" -> "remaining"
      [] msg = "HOURLY LIMIT" -> "minutes"
      [] msg = "FAUCET LIMIT" -> "hour"
      [] OTHER -> ""

\* A faulty variant of QuotaExceeded: the request's cost is not counted.
QuotaExceededWithoutCost(canRequest, currentCount, requestCost) ==
    ~canRequest

\* A faulty variant of QuotaExceeded: the last unit of the quota is refused.
QuotaExceededAtCap(canRequest, currentCount, requestCost) ==
    ~canRequest \/ (currentCount + requestCost) >= MaxRequestsPerDayIP

\* Lines 239-240: the quota test on the values CheckIPDailyLimit returned.
QuotaExceeded(canRequest, currentCount, requestCost) ==
    ~canRequest \/ (currentCount + requestCost) > MaxRequestsPerDayIP

\* Lines 204-247: the daily limit and the 24h cooldown.  The rejection for
\* lack of quota reads the counter again with GetIPDailyQuota (line 241) to
\* print it; the error of that call is discarded.
RT_CheckDaily(r) ==
    /\ req[r].pc = "daily"
    /\ \E err \in Failing :
        LET q == req[r]
            res == CheckIPDailyLimit(q.ip)
            requestCost == RequestCost(q.token)
            fits == res.canRequest
                    /\ res.currentCount + requestCost <= MaxRequestsPerDayIP
            t == Traced(q, "CheckIPDailyLimit", "",
                        IF err THEN "err" ELSE IF fits THEN "ok" ELSE "deny")
        IN /\ Failed(err)
           /\ req' = [req EXCEPT ![r] =
                IF err THEN Reply(t, 500, "Failed to check rate limit", "")
                ELSE IF ~res.canRequest /\ res.cooldownEnd # 0
                THEN Reply(t, 429, "DAILY LIMIT cooldown", "")
                ELSE IF QuotaExceeded(res.canRequest, res.currentCount,
                                      requestCost)
                THEN Reply(Traced(t, "GetIPDailyQuota", "", "ok"),
                           429, "DAILY LIMIT exceed", "")
                ELSE [t EXCEPT !.pc = "throttle", !.idx = 1]]
    /\ UNCHANGED <<guard, partVars, storeVars, balance, started, xfers, accepted>>

\* Lines 255-274: BOTH checks the throttle of every supported token.
RT_CheckThrottleBoth(r) ==
    /\ req[r].pc = "throttle"
    /\ req[r].token = "BOTH"
    /\ \E err \in Failing :
        LET q == req[r]
            supportedTokens == GetSupportedTokens(ChainOf(q))
            token == supportedTokens[q.idx]
            canRequestToken == CheckTokenHourlyThrottle(q.ip, NetOf(q), token)
            t == Traced(q, "CheckTokenHourlyThrottle", token,
                        IF err THEN "err"
                        ELSE IF canRequestToken THEN "ok" ELSE "deny")
        IN /\ Failed(err)
           /\ req' = [req EXCEPT ![r] =
                IF err THEN Reply(t, 500, "Failed to check rate limit", "")
                ELSE IF ~canRequestToken
                THEN Reply(t, 429, "HOURLY LIMIT", token)
                ELSE IF q.idx < Len(supportedTokens)
                THEN [t EXCEPT !.idx = q.idx + 1]
                ELSE [t EXCEPT !.pc = "challenge", !.idx = 0]]
    /\ UNCHANGED <<guard, partVars, storeVars, balance, started, xfers, accepted>>

\* A faulty variant of RT_CheckThrottleSingle: a throttled request has its
\* challenges removed from the store.
RT_CheckThrottleSingleConsuming(r) ==
    /\ req[r].pc = "throttle"
    /\ req[r].token # "BOTH"
    /\ LET q == req[r]
           canRequestToken == CheckTokenHourlyThrottle(q.ip, NetOf(q), q.token)
           t == Traced(q, "CheckTokenHourlyThrottle", q.token,
                       IF canRequestToken THEN "ok" ELSE "deny")
       IN /\ req' = [req EXCEPT ![r] =
                IF ~canRequestToken
                THEN Reply(t, 429, "HOURLY LIMIT", q.token)
                ELSE [t EXCEPT !.pc = "challenge", !.idx = 0]]
          /\ chal' = IF canRequestToken THEN chal ELSE [c \in DOMAIN chal |-> 0]
    /\ UNCHANGED <<guard, partVars, daily, cooldown, throttle, ghour, gday,
                   issued, chalCount, balance, started, faults, xfers, accepted>>

\* Lines 275-292: a single token checks its own throttle.
RT_CheckThrottleSingle(r) ==
    /\ req[r].pc = "throttle"
    /\ req[r].token # "BOTH"
    /\ \E err \in Failing :
        LET q == req[r]
            canRequestToken == CheckTokenHourlyThrottle(q.ip, NetOf(q), q.token)
            t == Traced(q, "CheckTokenHourlyThrottle", q.token,
                        IF err THEN "err"
                        ELSE IF canRequestToken THEN "ok" ELSE "deny")
        IN /\ Failed(err)
           /\ req' = [req EXCEPT ![r] =
                IF err THEN Reply(t, 500, "Failed to check rate limit", "")
                ELSE IF ~canRequestToken
                THEN Reply(t, 429, "HOURLY LIMIT", q.token)
                ELSE [t EXCEPT !.pc = "challenge", !.idx = 0]]
    /\ UNCHANGED <<guard, partVars, storeVars, balance, started, xfers, accepted>>

\* A faulty variant of ChallengeMissing: an id the store holds no challenge
\* for is taken as found.
ChallengeMissingOnFailure(err, storedChallenge) == err

\* Lines 295-296: GetChallenge returns an error when the store fails and when
\* it holds no challenge under the id (expired, deleted or never stored).
ChallengeMissing(err, storedChallenge) == err \/ storedChallenge = 0

\* A faulty variant of RT_VerifyChallenge: the challenge is deleted when it
\* is found, before the solution is verified.
RT_VerifyChallengeThenDelete(r, c, nonce) ==
    /\ req[r].pc = "challenge"
    /\ LET q == [req[r] EXCEPT !.chal = c]
           storedChallenge == StoredChallenge(q.chal)
           solved == storedChallenge # 0 /\ VerifyPoW(storedChallenge, nonce)
           looked == Traced(q, "GetChallenge", "",
                            IF storedChallenge # 0 THEN "ok" ELSE "deny")
           t == IF storedChallenge = 0 THEN looked
                ELSE Traced(looked, "VerifyPoW", "",
                            IF solved THEN "ok" ELSE "deny")
       IN /\ req' = [req EXCEPT ![r] =
                IF storedChallenge = 0
                THEN Reply(t, 400, "Invalid or expired challenge", "")
                ELSE IF ~solved
                THEN Reply(t, 400, "Invalid proof of work solution", "")
                ELSE [t EXCEPT !.pc = "delete"]]
          /\ accepted' = IF solved THEN [accepted EXCEPT ![c] = @ + 1]
                         ELSE accepted
          /\ DeleteChallenge(c)
    /\ UNCHANGED <<guard, partVars, daily, cooldown, throttle, ghour, gday,
                   issued, chalCount, balance, started, faults, xfers>>

\* Lines 294-312: the challenge must exist and the solution must verify.
\* The body's challenge id and nonce are first read here.
RT_VerifyChallenge(r, c, nonce) ==
    /\ req[r].pc = "challenge"
    /\ \E err \in Failing :
        LET q == [req[r] EXCEPT !.chal = c]
            storedChallenge == StoredChallenge(q.chal)
            found == ~err /\ storedChallenge # 0
            solved == found /\ VerifyPoW(storedChallenge, nonce)
            looked == Traced(q, "GetChallenge", "",
                             IF err THEN "err"
                             ELSE IF found THEN "ok" ELSE "deny")
            t == IF ~found THEN looked
                 ELSE Traced(looked, "VerifyPoW", "",
                             IF solved THEN "ok" ELSE "deny")
        IN /\ Failed(err)
           /\ req' = [req EXCEPT ![r] =
                IF ChallengeMissing(err, storedChallenge)
                THEN Reply(t, 400, "Invalid or expired challenge", "")
                ELSE IF ~VerifyPoW(storedChallenge, nonce)
                THEN Reply(t, 400, "Invalid proof of work solution", "")
                ELSE [t EXCEPT !.pc = "delete"]]
           /\ accepted' = IF solved THEN [accepted EXCEPT ![c] = @ + 1]
                          ELSE accepted
    /\ UNCHANGED <<guard, partVars, storeVars, balance, started, xfers>>

\* Lines 314-322: delete the challenge (a failure is only logged), then
\* branch to the BOTH handler.
RT_DeleteChallenge(r) ==
    /\ req[r].pc = "delete"
    /\ \E err \in Failing :
        LET q == req[r]
            t == Traced(q, "DeleteChallenge", "", IF err THEN "err" ELSE "ok")
        IN /\ Failed(err)
           /\ IF err THEN UNCHANGED chal ELSE DeleteChallenge(q.chal)
           /\ req' = [req EXCEPT ![r] =
                IF q.token = "BOTH"
                THEN [t EXCEPT !.pc = "bothGlobal", !.chal = 0, !.idx = 1]
                ELSE [t EXCEPT !.pc = "global", !.chal = 0]]
    /\ UNCHANGED <<guard, partVars, daily, cooldown, throttle, ghour, gday, issued,
                   chalCount, balance, started, xfers, accepted>>

\* ------------------------------------------------------------ single token

\* A faulty variant of DistributionLimits: the limits of another chain's
\* provider.
DistributionLimitsOfEthereum(chain, token) ==
    [maxHourly |-> GetMaxTokensPerHour("ethereum", token),
     maxDaily |-> GetMaxTokensPerDay("ethereum", token)]

\* A faulty variant of DistributionLimits: the daily limit passed for both.
DistributionLimitsDailyOnly(chain, token) ==
    [maxHourly |-> GetMaxTokensPerDay(chain, token),
     maxDaily |-> GetMaxTokensPerDay(chain, token)]

\* Lines 327-328: the limits RequestTokens passes to
\* TrackGlobalDistribution.
DistributionLimits(chain, token) ==
    [maxHourly |-> GetMaxTokensPerHour(chain, token),
     maxDaily |-> GetMaxTokensPerDay(chain, token)]

\* Lines 324-346: the global distribution limits of the token.
RT_TrackGlobal(r) ==
    /\ req[r].pc = "global"
    /\ \E err \in Failing :
        LET q == req[r]
            amountFloat == GetDripAmount(ChainOf(q), q.token)
            maxHourly == DistributionLimits(ChainOf(q), q.token).maxHourly
            maxDaily == DistributionLimits(ChainOf(q), q.token).maxDaily
            canDistribute == CanDistribute(q.token, amountFloat, maxHourly, maxDaily)
            t == Traced(q, "TrackGlobalDistribution", q.token,
                        IF err THEN "err"
                        ELSE IF canDistribute THEN "ok" ELSE "deny")
        IN /\ Failed(err)
           /\ IF err THEN UNCHANGED <<ghour, gday>>
              ELSE TrackGlobalDistribution(q.token, amountFloat, maxHourly, maxDaily)
           /\ req' = [req EXCEPT ![r] =
                IF err THEN Reply(t, 500, "Failed to process request", "")
                ELSE IF ~canDistribute THEN Reply(t, 503, "FAUCET LIMIT", "")
                ELSE [t EXCEPT !.pc = "balance"]]
    /\ UNCHANGED <<guard, partVars, daily, cooldown, throttle, chal, issued, chalCount,
                   balance, started, xfers, accepted>>

\* Lines 348-376: read the faucet balance and apply the balance protection.
RT_CheckBalance(r) ==
    /\ req[r].pc = "balance"
    /\ \E err \in Failing :
        LET q == req[r]
            currentBalance == balance[<<ChainOf(q), q.token>>]
            amountFloat == ParseFloat(GetDripAmount(ChainOf(q), q.token))
            low == BalanceProtection(WeiToAmount(currentBalance), amountFloat,
                                     GetMinBalanceProtectPct(ChainOf(q)))
            t == Traced(q, "GetBalance", q.token,
                        IF err THEN "err" ELSE IF low THEN "deny" ELSE "ok")
        IN /\ Failed(err)
           /\ req' = [req EXCEPT ![r] =
                IF err THEN Reply(t, 500, "Failed to check faucet balance", "")
                ELSE IF low THEN Reply(t, 503, "LOW BALANCE", q.token)
                ELSE [t EXCEPT !.pc = "transfer"]]
    /\ UNCHANGED <<guard, partVars, storeVars, balance, started, xfers, accepted>>

\* The transfers of a throttle key after one more.
Transferred(key) == [xfers EXCEPT ![key] = Append(@, 0)]

\* Lines 378-397: submit the transfer.
RT_Transfer(r) ==
    /\ req[r].pc = "transfer"
    /\ \E err \in Failing :
        LET q == req[r]
            amountWei == AmountToWei(GetDripAmount(ChainOf(q), q.token))
            t == Traced(q, "TransferTokens", q.token,
                        IF err THEN "err" ELSE "ok")
        IN /\ Failed(err)
           /\ ~err => CanTransfer(ChainOf(q), q.token, amountWei)
           /\ balance' = IF err THEN balance
                         ELSE [balance EXCEPT ![<<ChainOf(q), q.token>>] =
                                  @ - amountWei]
           /\ xfers' = IF err THEN xfers
                       ELSE Transferred(<<q.ip, NetOf(q), q.token>>)
           /\ req' = [req EXCEPT ![r] =
                IF err THEN Reply(t, 500, "Failed to send tokens", "")
                ELSE [t EXCEPT !.pc = "incr", !.txs = <<q.token>>]]
    /\ UNCHANGED <<guard, partVars, storeVars, started, accepted>>

\* Lines 399-402: increment the IP's daily counter by 1 (a failure is only
\* logged).
RT_IncrementDaily(r) ==
    /\ req[r].pc = "incr"
    /\ \E err \in Failing, left \in 1..DayTicks :
        LET q == req[r]
            t == Traced(q, "IncrementIPDailyLimit", "",
                        IF err THEN "err" ELSE "ok")
        IN /\ Failed(err)
           /\ IF err THEN UNCHANGED <<daily, cooldown>>
              ELSE IncrementIPDailyLimit(q.ip, 1, left)
           /\ req' = [req EXCEPT ![r] =
                [t EXCEPT !.pc = "setThrottle",
                          !.charged = IF err THEN 0 ELSE 1]]
    /\ UNCHANGED <<guard, partVars, throttle, ghour, gday, chal, issued, chalCount,
                   balance, started, xfers, accepted>>

\* Lines 404-426: set the token's hourly throttle (a failure is only
\* logged) and answer with the transaction.
RT_SetThrottle(r) ==
    /\ req[r].pc = "setThrottle"
    /\ \E err \in Failing :
        LET q == req[r]
            t == Traced(q, "SetTokenHourlyThrottle", q.token,
                        IF err THEN "err" ELSE "ok")
        IN /\ Failed(err)
           /\ IF err THEN UNCHANGED throttle
              ELSE SetTokenHourlyThrottle(q.ip, NetOf(q), q.token)
           /\ req' = [req EXCEPT ![r] =
                Reply(t, 200, "Tokens sent successfully", "")]
    /\ UNCHANGED <<guard, partVars, daily, cooldown, ghour, gday, chal, issued,
                   chalCount, balance, started, xfers, accepted>>

\* ------------------------------------------------------------ BOTH

\* A faulty variant of AfterLoop: the commits are made whatever the loop
\* transferred.
AfterLoopAlways(q) == [q EXCEPT !.pc = "bothIncr"]

\* Lines 617-651, entered when the loop over the tokens ends or breaks:
\* commit if any transfer succeeded, else answer with the error.
AfterLoop(q) ==
    IF Len(q.txs) > 0
    THEN [q EXCEPT !.pc = "bothIncr"]
    ELSE Reply(q, 500, "Failed to send tokens", q.failed)

\* A faulty variant of Break: the failure is passed over and the loop body
\* goes on to the transfer.
BreakSkipped(q, token) == [q EXCEPT !.pc = "bothTransfer"]

\* A faulty variant of Break: continue instead of break, the loop goes on
\* with the next token.
BreakContinue(q, token) ==
    IF q.idx < Len(GetSupportedTokens(ChainOf(q)))
    THEN [q EXCEPT !.failed = token, !.pc = "bothGlobal", !.idx = q.idx + 1]
    ELSE AfterLoop([q EXCEPT !.failed = token])

\* A token of the loop failed: failedToken = token; break.
Break(q, token) == AfterLoop([q EXCEPT !.failed = token])

\* Lines 556-574: the global distribution limits of the loop's token.
HB_TrackGlobal(r) ==
    /\ req[r].pc = "bothGlobal"
    /\ \E err \in Failing :
        LET q == req[r]
            token == GetSupportedTokens(ChainOf(q))[q.idx]
            amountFloat == GetDripAmount(ChainOf(q), token)
            maxHourly == GetMaxTokensPerHour(ChainOf(q), token)
            maxDaily == GetMaxTokensPerDay(ChainOf(q), token)
            canDistribute == CanDistribute(token, amountFloat, maxHourly, maxDaily)
            t == Traced(q, "TrackGlobalDistribution", token,
                        IF err THEN "err"
                        ELSE IF canDistribute THEN "ok" ELSE "deny")
        IN /\ Failed(err)
           /\ IF err THEN UNCHANGED <<ghour, gday>>
              ELSE TrackGlobalDistribution(token, amountFloat, maxHourly, maxDaily)
           /\ req' = [req EXCEPT ![r] =
                IF err \/ ~canDistribute THEN Break(t, token)
                ELSE [t EXCEPT !.pc = "bothBalance"]]
    /\ UNCHANGED <<guard, partVars, daily, cooldown, throttle, chal, issued, chalCount,
                   balance, started, xfers, accepted>>

\* Lines 576-594: the balance read and the balance protection.
HB_CheckBalance(r) ==
    /\ req[r].pc = "bothBalance"
    /\ \E err \in Failing :
        LET q == req[r]
            token == GetSupportedTokens(ChainOf(q))[q.idx]
            currentBalance == balance[<<ChainOf(q), token>>]
            amountFloat == ParseFloat(GetDripAmount(ChainOf(q), token))
            low == BalanceProtectionBoth(WeiToAmount(currentBalance), amountFloat,
                                         GetMinBalanceProtectPct(ChainOf(q)))
            t == Traced(q, "GetBalance", token,
                        IF err THEN "err" ELSE IF low THEN "deny" ELSE "ok")
        IN /\ Failed(err)
           /\ req' = [req EXCEPT ![r] =
                IF err \/ low THEN Break(t, token)
                ELSE [t EXCEPT !.pc = "bothTransfer"]]
    /\ UNCHANGED <<guard, partVars, storeVars, balance, started, xfers, accepted>>

\* Lines 596-615: the transfer; a success is appended to transactions and
\* the loop goes on with the next token.
HB_Transfer(r) ==
    /\ req[r].pc = "bothTransfer"
    /\ \E err \in Failing :
        LET q == req[r]
            tokens == GetSupportedTokens(ChainOf(q))
            token == tokens[q.idx]
            amountWei == AmountToWei(GetDripAmount(ChainOf(q), token))
            t == Traced(q, "TransferTokens", token, IF err THEN "err" ELSE "ok")
            sent == [t EXCEPT !.txs = Append(@, token)]
        IN /\ Failed(err)
           /\ ~err => CanTransfer(ChainOf(q), token, amountWei)
           /\ balance' = IF err THEN balance
                         ELSE [balance EXCEPT ![<<ChainOf(q), token>>] =
                                  @ - amountWei]
           /\ xfers' = IF err THEN xfers
                       ELSE Transferred(<<q.ip, NetOf(q), token>>)
           /\ req' = [req EXCEPT ![r] =
                IF err THEN Break(t, token)
                ELSE IF q.idx < Len(tokens)
                THEN [sent EXCEPT !.pc = "bothGlobal", !.idx = q.idx + 1]
                ELSE AfterLoop(sent)]
    /\ UNCHANGED <<guard, partVars, storeVars, started, accepted>>

\* A faulty variant of BothDailyUnits: the units of the tokens that were not
\* sent are taken back.
BothDailyUnitsRefund(transactions) == Len(transactions) - 2

\* The units handleBothTokensRequest charges (line 620).
BothDailyUnits(transactions) == 2

\* Lines 618-622: increment the IP's daily counter (a failure is only
\* logged).
HB_IncrementDaily(r) ==
    /\ req[r].pc = "bothIncr"
    /\ \E err \in Failing, left \in 1..DayTicks :
        LET q == req[r]
            t == Traced(q, "IncrementIPDailyLimit", "",
                        IF err THEN "err" ELSE "ok")
        IN /\ Failed(err)
           /\ IF err THEN UNCHANGED <<daily, cooldown>>
              ELSE IncrementIPDailyLimit(q.ip, BothDailyUnits(q.txs), left)
           /\ req' = [req EXCEPT ![r] =
                [t EXCEPT !.pc = "bothSetThrottle", !.idx = 1,
                          !.charged = IF err THEN 0
                                      ELSE BothDailyUnits(q.txs)]]
    /\ UNCHANGED <<guard, partVars, throttle, ghour, gday, chal, issued, chalCount,
                   balance, started, xfers, accepted>>

\* A faulty variant of ThrottledAfterBoth: every requested token.
ThrottledAfterBothAll(q) == GetSupportedTokens(ChainOf(q))

\* The tokens whose throttle handleBothTokensRequest sets (line 629).
ThrottledAfterBoth(q) == q.txs

\* Lines 624-645: set the throttle of every transferred token (a failure is
\* only logged), then answer with the transactions.
HB_SetThrottle(r) ==
    /\ req[r].pc = "bothSetThrottle"
    /\ \E err \in Failing :
        LET q == req[r]
            list == ThrottledAfterBoth(q)
            token == list[q.idx]
            t == Traced(q, "SetTokenHourlyThrottle", token,
                        IF err THEN "err" ELSE "ok")
        IN /\ Failed(err)
           /\ IF err THEN UNCHANGED throttle
              ELSE SetTokenHourlyThrottle(q.ip, NetOf(q), token)
           /\ req' = [req EXCEPT ![r] =
                IF q.idx < Len(list)
                THEN [t EXCEPT !.idx = q.idx + 1]
                ELSE Reply(t, 200,
                           IF q.failed = "" THEN "Both tokens sent successfully"
                           ELSE "Sent some, but one failed",
                           q.failed)]
    /\ UNCHANGED <<guard, partVars, daily, cooldown, ghour, gday, chal, issued,
                   chalCount, balance, started, xfers, accepted>>

\* ------------------------------------------------------------ the rest

\* The response has been sent: the slot is free again.
Return(r) ==
    /\ req[r].pc = "done"
    /\ req' = [req EXCEPT ![r] = IdleReq]
    /\ UNCHANGED <<guard, partVars, storeVars, balance, started, faults, xfers, accepted>>

\* Handler.GetChallenge (lines 118-165): rate limit check, generation,
\* StoreChallenge, IncrementChallengeRateLimit (a failure is only logged).
\* One of the three store calls (at) may fail.
GetChallenge(ip) ==
    /\ \E err \in Failing, at \in {"check", "store", "incr"} :
        /\ Failed(err)
        /\ IF (err /\ at = "check") \/ ~CheckChallengeRateLimit(ip)
           THEN UNCHANGED <<chal, issued, chalCount>>
           ELSE \E id \in ChalIds \ issued :
                /\ \A other \in ChalIds \ issued : id <= other
                /\ issued' = issued \cup {id}
                /\ IF err /\ at = "store" THEN UNCHANGED chal
                   ELSE StoreChallenge(id)
                /\ IF err /\ at \in {"store", "incr"} THEN UNCHANGED chalCount
                   ELSE IncrementChallengeRateLimit(ip)
    /\ UNCHANGED <<guard, partVars, req, daily, cooldown, throttle, ghour, gday,
                   balance, started, xfers, accepted>>

\* A marker, a counter and a total one tick later.
AgeMarker(left) == IF left <= 1 THEN 0 ELSE left - 1
AgeCounter(e) == IF e.ttl <= 1 THEN [n |-> 0, ttl |-> 0] ELSE [e EXCEPT !.ttl = @ - 1]
AgeTotal(e) == IF e.ttl <= 1 THEN [v |-> 0, ttl |-> 0] ELSE [e EXCEPT !.ttl = @ - 1]

\* The transfers still less than an hour old after a tick.
RECURSIVE AgeTransfers(_)
AgeTransfers(ages) ==
    IF ages = <<>> THEN <<>>
    ELSE IF ages[1] + 1 < HourTicks
         THEN <<ages[1] + 1>> \o AgeTransfers(Tail(ages))
    ELSE AgeTransfers(Tail(ages))

\* One clock tick: every key of the store is one tick nearer to its expiry.
\* An invocation is short against a tick: the clock ticks between
\* invocations.
Tick ==
    /\ \A r \in Slots : req[r].pc \in {"idle", "done"}
    /\ daily' = [ip \in IPs |-> AgeCounter(daily[ip])]
    /\ cooldown' = [ip \in IPs |-> AgeMarker(cooldown[ip])]
    /\ throttle' = [k \in ThrottleKeys |-> AgeMarker(throttle[k])]
    /\ ghour' = [t \in Tokens |-> AgeTotal(ghour[t])]
    /\ gday' = [t \in Tokens |-> AgeTotal(gday[t])]
    /\ chal' = [c \in ChalIds |-> AgeMarker(chal[c])]
    /\ chalCount' = [ip \in IPs |-> AgeCounter(chalCount[ip])]
    /\ xfers' = [k \in ThrottleKeys |-> AgeTransfers(xfers[k])]
    /\ UNCHANGED <<guard, partVars, req, issued, balance, started, faults, accepted>>

Next ==
    \/ \E r \in Slots, ip \in Callers, bodyOK \in BOOLEAN, network \in NetworkInputs,
          addrOK \in BOOLEAN, token \in TokenInputs :
            RT_Validate(r, ip, bodyOK, network, addrOK, token)
    \/ \E r \in Slots : RT_CheckDaily(r)
    \/ \E r \in Slots : RT_CheckThrottleBoth(r)
    \/ \E r \in Slots : RT_CheckThrottleSingle(r)
    \/ \E r \in Slots, c \in ChalIds, nonce \in Nonces : RT_VerifyChallenge(r, c, nonce)
    \/ \E r \in Slots : RT_DeleteChallenge(r)
    \/ \E r \in Slots : RT_TrackGlobal(r)
    \/ \E r \in Slots : RT_CheckBalance(r)
    \/ \E r \in Slots : RT_Transfer(r)
    \/ \E r \in Slots : RT_IncrementDaily(r)
    \/ \E r \in Slots : RT_SetThrottle(r)
    \/ \E r \in Slots : HB_TrackGlobal(r)
    \/ \E r \in Slots : HB_CheckBalance(r)
    \/ \E r \in Slots : HB_Transfer(r)
    \/ \E r \in Slots : HB_IncrementDaily(r)
    \/ \E r \in Slots : HB_SetThrottle(r)
    \/ \E r \in Slots : Return(r)
    \/ \E ip \in Callers : GetChallenge(ip)
    \/ Tick

Spec == Init /\ [][Next]_vars

\* ------------------------------------------------------------ SpecGuard
\* The balance guard as a function: Init draws a reserve percentage, an
\* amount and a balance, GuardApply applies the guard of either path.

GuardPcts == {0, 14, 28, 50, 56, 68, 100}

InitGuard ==
    /\ req = [r \in Slots |-> IdleReq]
    /\ daily = [ip \in IPs |-> [n |-> 0, ttl |-> 0]]
    /\ cooldown = [ip \in IPs |-> 0]
    /\ throttle = [k \in ThrottleKeys |-> 0]
    /\ ghour = [t \in Tokens |-> [v |-> 0, ttl |-> 0]]
    /\ gday = [t \in Tokens |-> [v |-> 0, ttl |-> 0]]
    /\ chal = [c \in ChalIds |-> 0]
    /\ issued = {}
    /\ chalCount = [ip \in IPs |-> [n |-> 0, ttl |-> 0]]
    /\ balance = [a \in Accounts |-> InitBalance]
    /\ started = 0
    /\ faults = 0
    /\ xfers = [k \in ThrottleKeys |-> <<>>]
    /\ accepted = [c \in ChalIds |-> 0]
    /\ \E pct \in GuardPcts, amount \in 1..GuardMaxAmount, wei \in 0..GuardMaxWei :
         guard = [pc |-> "in", pct |-> pct, amount |-> amount, wei |-> wei]
    /\ gc = NoIssuers
    /\ wait = NoWait
    /\ pow = NoPow
    /\ find = NoFind /\ query = NoQuery /\ route = NoRoute /\ eth = NoEth

GuardApply ==
    /\ guard.pc = "in"
    /\ guard' = [pc |-> "out", pct |-> guard.pct, amount |-> guard.amount,
                 wei |-> guard.wei,
                 low |-> BalanceProtection(WeiToAmount(guard.wei),
                                           ParseFloat(guard.amount), guard.pct),
                 lowBoth |-> BalanceProtectionBoth(WeiToAmount(guard.wei),
                                                   ParseFloat(guard.amount),
                                                   guard.pct)]
    /\ UNCHANGED <<req, storeVars, balance, started, faults, xfers, accepted,
                   partVars>>

NextGuard == GuardApply

SpecGuard == InitGuard /\ [][NextGuard]_vars

\* ------------------------------------------------------------ SpecDaily
\* One caller's requests one after the other, with no failing store or
\* chain call: an invocation starts when the one before it has been
\* answered, so the bound on invocations counts the one in flight.

\* The response has been sent and the caller may send its next request.
ReturnThenNext(r) ==
    /\ req[r].pc = "done"
    /\ req' = [req EXCEPT ![r] = IdleReq]
    /\ started' = started - 1
    /\ UNCHANGED <<guard, partVars, storeVars, balance, faults, xfers, accepted>>

NextDaily ==
    \/ /\ Next
       /\ faults' = faults
       /\ \A r \in Slots : r > 1 => req'[r].pc = "idle"
    \/ \E r \in Slots : ReturnThenNext(r)

SpecDaily == Init /\ [][NextDaily]_vars

\* ------------------------------------------------------------ SpecChallenge
\* Handler.GetChallenge call by call: the invocations of one caller within
\* one hourly window (no key expires), several of them running at once.

IssuerSlots == 1..NIssuers
\* The ids the generator hands out.
IssuerIds == 1..MaxIssuerCalls

IdleIssuer == [pc |-> "idle", ip |-> "", id |-> 0, status |-> 0]

InitChallenge ==
    /\ req = [r \in Slots |-> IdleReq]
    /\ daily = [ip \in IPs |-> [n |-> 0, ttl |-> 0]]
    /\ cooldown = [ip \in IPs |-> 0]
    /\ throttle = [k \in ThrottleKeys |-> 0]
    /\ ghour = [t \in Tokens |-> [v |-> 0, ttl |-> 0]]
    /\ gday = [t \in Tokens |-> [v |-> 0, ttl |-> 0]]
    /\ chal = [c \in IssuerIds |-> 0]
    /\ issued = {}
    /\ chalCount = [ip \in IPs |-> [n |-> 0, ttl |-> 0]]
    /\ balance = [a \in Accounts |-> InitBalance]
    /\ started = 0
    /\ faults = 0
    /\ xfers = [k \in ThrottleKeys |-> <<>>]
    /\ accepted = [c \in ChalIds |-> 0]
    /\ guard = NoGuard
    /\ gc = [call |-> [s \in IssuerSlots |-> IdleIssuer], begun |-> 0]
    /\ wait = NoWait
    /\ pow = NoPow
    /\ find = NoFind /\ query = NoQuery /\ route = NoRoute /\ eth = NoEth

\* A faulty variant of IssuerReply: the challenge is sent whatever happened.
IssuerReplySent(i, status) == [i EXCEPT !.pc = "done", !.status = 200]

\* An invocation answers with status.
IssuerReply(i, status) == [i EXCEPT !.pc = "done", !.status = status]

\* Lines 121-134: CheckChallengeRateLimit; 500 when it fails, 429 when the
\* caller is at its limit.
GC_Check(s, ip) ==
    /\ gc.call[s].pc = "idle"
    /\ gc.begun < MaxIssuerCalls
    /\ \E err \in Failing :
        LET i == [IdleIssuer EXCEPT !.ip = ip]
        IN /\ Failed(err)
           /\ gc' = [gc EXCEPT !.begun = @ + 1, !.call[s] =
                IF err THEN IssuerReply(i, 500)
                ELSE IF ~CheckChallengeRateLimit(ip) THEN IssuerReply(i, 429)
                ELSE [i EXCEPT !.pc = "generate"]]
    /\ UNCHANGED <<req, storeVars, balance, started, xfers, accepted, guard, wait, pow,
                   find, query, route, eth>>

\* Lines 136-143: GenerateChallenge, which may fail (500); a challenge has an
\* id no other challenge has.
GC_Generate(s, generated) ==
    /\ gc.call[s].pc = "generate"
    /\ IF ~generated
       THEN /\ gc' = [gc EXCEPT !.call[s] = IssuerReply(@, 500)]
            /\ UNCHANGED issued
       ELSE \E id \in IssuerIds \ issued :
            /\ \A other \in IssuerIds \ issued : id <= other
            /\ issued' = issued \cup {id}
            /\ gc' = [gc EXCEPT !.call[s] = [@ EXCEPT !.pc = "store", !.id = id]]
    /\ UNCHANGED <<req, daily, cooldown, throttle, ghour, gday, chal,
                   chalCount, balance, started, faults, xfers, accepted,
                   guard, wait, pow,
                   find, query, route, eth>>

\* Lines 145-152: StoreChallenge with the configured TTL; 500 when it fails.
GC_Store(s) ==
    /\ gc.call[s].pc = "store"
    /\ \E err \in Failing :
        /\ Failed(err)
        /\ IF err THEN UNCHANGED chal ELSE StoreChallenge(gc.call[s].id)
        /\ gc' = [gc EXCEPT !.call[s] =
                IF err THEN IssuerReply(@, 500) ELSE [@ EXCEPT !.pc = "incr"]]
    /\ UNCHANGED <<req, daily, cooldown, throttle, ghour, gday, issued,
                   chalCount, balance, started, xfers, accepted, guard, wait, pow,
                   find, query, route, eth>>

\* Lines 154-164: IncrementChallengeRateLimit (a failure is only logged) and
\* the challenge is sent.
GC_Increment(s) ==
    /\ gc.call[s].pc = "incr"
    /\ \E err \in Failing :
        /\ Failed(err)
        /\ IF err THEN UNCHANGED chalCount
           ELSE IncrementChallengeRateLimit(gc.call[s].ip)
        /\ gc' = [gc EXCEPT !.call[s] = IssuerReply(@, 200)]
    /\ UNCHANGED <<req, daily, cooldown, throttle, ghour, gday, chal, issued,
                   balance, started, xfers, accepted, guard, wait, pow,
                   find, query, route, eth>>

\* The response has been sent.
GC_Return(s) ==
    /\ gc.call[s].pc = "done"
    /\ gc' = [gc EXCEPT !.call[s] = IdleIssuer]
    /\ UNCHANGED <<req, storeVars, balance, started, faults, xfers, accepted,
                   guard, wait, pow,
                   find, query, route, eth>>

NextChallenge ==
    \/ \E s \in IssuerSlots, ip \in Callers : GC_Check(s, ip)
    \/ \E s \in IssuerSlots, generated \in BOOLEAN : GC_Generate(s, generated)
    \/ \E s \in IssuerSlots : GC_Store(s)
    \/ \E s \in IssuerSlots : GC_Increment(s)
    \/ \E s \in IssuerSlots : GC_Return(s)

SpecChallenge == InitChallenge /\ [][NextChallenge]_vars

\* ------------------------------------------------------------ SpecWait
\* Client.WaitForTransaction (client.go 125-150): a ticker, and a loop that
\* selects between the context's Done channel and the ticker's channel.

\* The context is live, cancelled by the caller, or past its deadline.
CtxStates == {"live", "canceled", "deadline"}

InitWait ==
    /\ req = [r \in Slots |-> IdleReq]
    /\ daily = [ip \in IPs |-> [n |-> 0, ttl |-> 0]]
    /\ cooldown = [ip \in IPs |-> 0]
    /\ throttle = [k \in ThrottleKeys |-> 0]
    /\ ghour = [t \in Tokens |-> [v |-> 0, ttl |-> 0]]
    /\ gday = [t \in Tokens |-> [v |-> 0, ttl |-> 0]]
    /\ chal = [c \in ChalIds |-> 0]
    /\ issued = {}
    /\ chalCount = [ip \in IPs |-> [n |-> 0, ttl |-> 0]]
    /\ balance = [a \in Accounts |-> InitBalance]
    /\ started = 0
    /\ faults = 0
    /\ xfers = [k \in ThrottleKeys |-> <<>>]
    /\ accepted = [c \in ChalIds |-> 0]
    /\ guard = NoGuard
    /\ gc = NoIssuers
    /\ pow = NoPow
    /\ find = NoFind /\ query = NoQuery /\ route = NoRoute /\ eth = NoEth
    /\ \E deadline \in BOOLEAN :
         wait = [pc |-> "select", ctx |-> "live", deadline |-> deadline,
                 tick |-> FALSE, mined |-> "no", polls |-> 0, result |-> ""]

waitRest == <<req, storeVars, balance, started, faults, xfers, accepted,
              guard, gc, pow, find, query, route, eth>>

\* A faulty variant of SelectReady: the ticker's case is taken first.
SelectReadyTickerFirst(ctx, tick) ==
    IF tick THEN {"tick"} ELSE IF ctx # "live" THEN {"done"} ELSE {}

\* Lines 134-138: the cases of the select that can proceed.  Go chooses one
\* of them at random.
SelectReady(ctx, tick) ==
    (IF ctx # "live" THEN {"done"} ELSE {}) \cup (IF tick THEN {"tick"} ELSE {})

\* The caller cancels the context.
WT_Cancel ==
    /\ wait.pc # "returned" /\ wait.ctx = "live"
    /\ wait' = [wait EXCEPT !.ctx = "canceled"]
    /\ UNCHANGED waitRest

\* The context's deadline passes.
WT_Deadline ==
    /\ wait.pc # "returned" /\ wait.ctx = "live" /\ wait.deadline
    /\ wait' = [wait EXCEPT !.ctx = "deadline"]
    /\ UNCHANGED waitRest

\* Line 131: the ticker's interval is over; its channel holds one tick.
WT_Ticker ==
    /\ wait.pc # "returned" /\ ~wait.tick
    /\ wait' = [wait EXCEPT !.tick = TRUE]
    /\ UNCHANGED waitRest

\* The transaction is mined, with status.
WT_Mined(status) ==
    /\ wait.pc # "returned" /\ wait.mined = "no"
    /\ wait' = [wait EXCEPT !.mined = status]
    /\ UNCHANGED waitRest

\* Lines 136-137: case <-ctx.Done(): return ctx.Err().
WT_SelectDone ==
    /\ wait.pc = "select"
    /\ "done" \in SelectReady(wait.ctx, wait.tick)
    /\ wait' = [wait EXCEPT !.pc = "returned", !.result = "ctx.Err"]
    /\ UNCHANGED waitRest

\* Line 138: case <-ticker.C.
WT_SelectTick ==
    /\ wait.pc = "select"
    /\ "tick" \in SelectReady(wait.ctx, wait.tick)
    /\ wait' = [wait EXCEPT !.pc = "receipt", !.tick = FALSE]
    /\ UNCHANGED waitRest

\* A faulty variant of ReceiptResult: any receipt is a success.
ReceiptResultNil(status) == "nil"

\* Lines 144-147: nil for a receipt with the successful status, else the
\* error 'transaction failed with status'.
ReceiptResult(status) ==
    IF status = "success" THEN "nil" ELSE "transaction failed"

\* Lines 139-148: TransactionReceipt fails (continue), or gives the receipt
\* of a mined transaction (return nil, or the error of a failed status).
WT_Receipt(out) ==
    /\ wait.pc = "receipt"
    /\ out \in {"err"} \cup (IF wait.mined = "no" THEN {} ELSE {wait.mined})
    /\ wait' = IF out = "err"
               THEN [wait EXCEPT !.pc = "select",
                                 !.polls = IF @ < MaxPolls THEN @ + 1 ELSE @]
               ELSE [wait EXCEPT !.pc = "returned",
                                 !.result = ReceiptResult(out)]
    /\ UNCHANGED waitRest

NextWait ==
    \/ WT_Cancel
    \/ WT_Deadline
    \/ WT_Ticker
    \/ \E status \in {"success", "reverted"} : WT_Mined(status)
    \/ WT_SelectDone
    \/ WT_SelectTick
    \/ \E out \in {"err", "success", "reverted"} : WT_Receipt(out)

\* A receipt query returns, and the select's random choice does not pass a
\* case over for ever that can proceed again and again.
SpecWait ==
    /\ InitWait /\ [][NextWait]_vars
    /\ WF_vars(\E out \in {"err", "success", "reverted"} : WT_Receipt(out))
    /\ SF_vars(WT_SelectDone)

\* ------------------------------------------------------------ SpecPoW
\* The PoW gate as a function of the deployment (the value of
\* FAUCET_TEST_MODE when the server starts) and of a submission: Init draws
\* them, PowApply applies the gate of RequestTokens.

\* Values FAUCET_TEST_MODE can have ("": not set).
EnvValues == {"", "false", "true", "1"}

\* The nonce the CLI sends under its hidden skip-verification flag
\* (request.go 440-442).
BypassNonce == 0 - 1

\* config.getEnv (config.go 203-208).
GetEnv(value, defaultValue) == IF value # "" THEN value ELSE defaultValue

\* A faulty variant of IsTestMode: any value but "false" turns it on.
IsTestModeUnlessFalse(env) == GetEnv(env, "false") # "false"

\* config.Load (config.go 71): the deployment is a test instance.
IsTestMode(env) == GetEnv(env, "false") = "true"

\* powGenerator.VerifyPoW in a deployment: a test instance accepts the bypass
\* nonce, and the bypass nonce solves no challenge.
VerifyPoWDeployed(isTestMode, challenge, nonce) ==
    \/ isTestMode /\ nonce = BypassNonce
    \/ nonce # BypassNonce /\ VerifyPoW(challenge, nonce)

\* Lines 294-312: the answer of the PoW gate.
PowGate(isTestMode, err, storedChallenge, nonce) ==
    IF ChallengeMissing(err, storedChallenge)
    THEN "Invalid or expired challenge"
    ELSE IF ~VerifyPoWDeployed(isTestMode, storedChallenge, nonce)
    THEN "Invalid proof of work solution"
    ELSE "accepted"

InitPoW ==
    /\ req = [r \in Slots |-> IdleReq]
    /\ daily = [ip \in IPs |-> [n |-> 0, ttl |-> 0]]
    /\ cooldown = [ip \in IPs |-> 0]
    /\ throttle = [k \in ThrottleKeys |-> 0]
    /\ ghour = [t \in Tokens |-> [v |-> 0, ttl |-> 0]]
    /\ gday = [t \in Tokens |-> [v |-> 0, ttl |-> 0]]
    /\ chal = [c \in ChalIds |-> 0]
    /\ issued = {}
    /\ chalCount = [ip \in IPs |-> [n |-> 0, ttl |-> 0]]
    /\ balance = [a \in Accounts |-> InitBalance]
    /\ started = 0
    /\ faults = 0
    /\ xfers = [k \in ThrottleKeys |-> <<>>]
    /\ accepted = [c \in ChalIds |-> 0]
    /\ guard = NoGuard
    /\ gc = NoIssuers
    /\ wait = NoWait
    /\ find = NoFind /\ query = NoQuery /\ route = NoRoute /\ eth = NoEth
    /\ \E env \in EnvValues, network \in NetworkInputs, token \in TokenInputs,
          stored \in {0} \cup ChalIds, nonce \in Nonces \cup {BypassNonce} :
         pow = [pc |-> "in", env |-> env, network |-> network, token |-> token,
                stored |-> stored, nonce |-> nonce]

PowApply ==
    /\ pow.pc = "in"
    /\ pow' = [pc |-> "out", env |-> pow.env, network |-> pow.network,
               token |-> pow.token, stored |-> pow.stored, nonce |-> pow.nonce,
               answer |-> PowGate(IsTestMode(pow.env), FALSE, pow.stored,
                                  pow.nonce)]
    /\ UNCHANGED <<req, storeVars, balance, started, faults, xfers, accepted,
                   guard, gc, wait, find, query, route, eth>>

NextPoW == PowApply

SpecPoW == InitPoW /\ [][NextPoW]_vars

\* ------------------------------------------------------------ SpecConfig
\* config.Load and config.FindConfigFile (config.go 66-143) as a function of
\* the environment and the file system: Init draws them, FindApply applies
\* the function.

\* The variables of the admission pipeline, and their values at start.
pipeVars == <<req, storeVars, balance, started, faults, xfers, accepted, guard>>

InitPipeline ==
    /\ req = [r \in Slots |-> IdleReq]
    /\ daily = [ip \in IPs |-> [n |-> 0, ttl |-> 0]]
    /\ cooldown = [ip \in IPs |-> 0]
    /\ throttle = [k \in ThrottleKeys |-> 0]
    /\ ghour = [t \in Tokens |-> [v |-> 0, ttl |-> 0]]
    /\ gday = [t \in Tokens |-> [v |-> 0, ttl |-> 0]]
    /\ chal = [c \in ChalIds |-> 0]
    /\ issued = {}
    /\ chalCount = [ip \in IPs |-> [n |-> 0, ttl |-> 0]]
    /\ balance = [a \in Accounts |-> InitBalance]
    /\ started = 0
    /\ faults = 0
    /\ xfers = [k \in ThrottleKeys |-> <<>>]
    /\ accepted = [c \in ChalIds |-> 0]
    /\ guard = NoGuard

\* The files FindConfigFile can look at: <<directory, subdirectory, name>>,
\* in the process's working directory ("cwd") or in another directory the
\* executable lies in ("exec").  A relative path is looked up in "cwd".
ConfigFiles ==
    {<<dir, sub, name>> : dir \in {"cwd", "exec"}, sub \in {"config", ""},
                          name \in {"config.json", "config.test.json"}}

\* os.Stat(path) returns no error.
Stat(files, dir, sub, name) == <<dir, sub, name>> \in files

\* Lines 105-108.
ConfigFileName(isTestMode) ==
    IF isTestMode THEN "config.test.json" ELSE "config.json"

\* A faulty variant of RootFallback: the fallback is tried in either mode.
RootFallbackAlways(isTestMode) == TRUE

\* Line 136: the root-level config.json is tried outside test mode only.
RootFallback(isTestMode) == ~isTestMode

\* Lines 104-143.  execDir and wd are the results of os.Executable and
\* os.Getwd, "" when the call failed.
FindConfigFile(isTestMode, files, execDir, wd) ==
    LET configFileName == ConfigFileName(isTestMode)
        found(dir, sub, name) == [path |-> <<dir, sub, name>>, err |-> FALSE]
    IN IF Stat(files, "cwd", "config", configFileName)
       THEN found("cwd", "config", configFileName)
       ELSE IF execDir # "" /\ Stat(files, execDir, "config", configFileName)
       THEN found(execDir, "config", configFileName)
       ELSE IF wd # "" /\ Stat(files, wd, "config", configFileName)
       THEN found(wd, "config", configFileName)
       ELSE IF RootFallback(isTestMode) /\ Stat(files, "cwd", "", "config.json")
       THEN found("cwd", "", "config.json")
       ELSE [path |-> <<>>, err |-> TRUE]

InitConfig ==
    /\ InitPipeline
    /\ gc = NoIssuers /\ wait = NoWait /\ pow = NoPow
    /\ query = NoQuery /\ route = NoRoute /\ eth = NoEth
    /\ \E env \in EnvValues, files \in SUBSET ConfigFiles,
          execDir \in {"", "cwd", "exec"}, wd \in {"", "cwd"} :
         find = [pc |-> "in", env |-> env, files |-> files,
                 execDir |-> execDir, wd |-> wd]

\* Lines 71-77: Load chooses the mode and looks for the file.
FindApply ==
    /\ find.pc = "in"
    /\ LET isTestMode == IsTestMode(find.env)
           res == FindConfigFile(isTestMode, find.files, find.execDir, find.wd)
       IN find' = [pc |-> "out", env |-> find.env, files |-> find.files,
                   execDir |-> find.execDir, wd |-> find.wd,
                   isTestMode |-> isTestMode, path |-> res.path, err |-> res.err]
    /\ UNCHANGED <<pipeVars, gc, wait, pow, query, route, eth>>

NextConfig == FindApply

SpecConfig == InitConfig /\ [][NextConfig]_vars

\* ------------------------------------------------------------ SpecQuery
\* The query endpoints GetStatus, GetInfo, GetQuota and Health (handlers.go
\* 428-547, 653-716) beside the requests of SpecDaily.  A query is one step;
\* its store and chain calls may fail.  The answer is kept until it is sent,
\* and the requests go on when it has been sent.

\* redis.GetIPDailyQuota: (used, remaining, cooldownEnd).
GetIPDailyQuota(ip) ==
    [used |-> daily[ip].n,
     remaining |-> IF daily[ip].n < MaxRequestsPerDayIP
                   THEN MaxRequestsPerDayIP - daily[ip].n ELSE 0,
     cooldownEnd |-> cooldown[ip]]

\* A faulty variant of StatusCanRequest: the cooldown is not looked at.
StatusCanRequestNoCooldown(remaining, cooldownEnd) == remaining > 0

\* Line 462: canRequest := remaining > 0 && cooldownEnd == nil.
StatusCanRequest(remaining, cooldownEnd) == remaining > 0 /\ cooldownEnd = 0

\* The answer of a query: the status and the fields of the body.
EmptyBody ==
    [canRequest |-> FALSE, used |-> 0, remaining |-> 0, inCooldown |-> FALSE,
     throttles |-> {}, balances |-> {}]

QueryReply(op, ip, status, body) ==
    [pc |-> "done", op |-> op, ip |-> ip, status |-> status, body |-> body]

\* A faulty variant of GetStatus: the query is counted as a request.
GetStatusCounted(ip, network, addrOK, err) ==
    /\ query.pc = "none"
    /\ query' = QueryReply("GetStatus", ip, 200,
                    [EmptyBody EXCEPT !.canRequest =
                        StatusCanRequest(GetIPDailyQuota(ip).remaining,
                                         GetIPDailyQuota(ip).cooldownEnd)])
    /\ IncrementIPDailyLimit(ip, 1, DayTicks)
    /\ UNCHANGED <<req, throttle, ghour, gday, chal, issued, chalCount, balance,
                   started, faults, xfers, accepted, guard, gc, wait, pow, find,
                   route, eth>>

\* Lines 429-477.
GetStatus(ip, network, addrOK, err) ==
    /\ query.pc = "none"
    /\ LET quota == GetIPDailyQuota(ip)
           canRequest == StatusCanRequest(quota.remaining, quota.cooldownEnd)
       IN query' =
            IF ~GetChainOK(network) \/ ~addrOK
            THEN QueryReply("GetStatus", ip, 400, EmptyBody)
            ELSE IF err THEN QueryReply("GetStatus", ip, 500, EmptyBody)
            ELSE QueryReply("GetStatus", ip, 200,
                            [EmptyBody EXCEPT !.canRequest = canRequest])
    /\ UNCHANGED <<pipeVars, gc, wait, pow, find, route, eth>>

\* Lines 480-547: the balance of every supported token; "0" for a token
\* whose GetBalance call (failing) fails.  The formatting of the amounts is
\* left out.
GetInfo(ip, network, failing) ==
    /\ query.pc = "none"
    /\ query' =
         IF ~GetChainOK(network) THEN QueryReply("GetInfo", ip, 400, EmptyBody)
         ELSE QueryReply("GetInfo", ip, 200,
                [EmptyBody EXCEPT !.balances =
                    {<<t, IF t \in failing THEN 0
                          ELSE balance[<<ChainKey(network), t>>]>> :
                        t \in SeqRange(GetSupportedTokens(ChainKey(network)))}])
    /\ UNCHANGED <<pipeVars, gc, wait, pow, find, route, eth>>

\* Lines 654-699: the daily quota, and the throttle of every token of every
\* chain; a token whose CheckTokenHourlyThrottle call (failing) fails is
\* left out of the answer.
GetQuota(ip, err, failing) ==
    /\ query.pc = "none"
    /\ LET quota == GetIPDailyQuota(ip)
       IN query' =
            IF err THEN QueryReply("GetQuota", ip, 500, EmptyBody)
            ELSE QueryReply("GetQuota", ip, 200,
                    [EmptyBody EXCEPT
                        !.used = quota.used,
                        !.remaining = quota.remaining,
                        !.inCooldown = quota.cooldownEnd # 0,
                        !.throttles =
                            {<<a[1], a[2],
                               CheckTokenHourlyThrottle(ip, a[1], a[2])>> :
                                a \in Accounts \ failing}])
    /\ UNCHANGED <<pipeVars, gc, wait, pow, find, route, eth>>

\* Lines 702-716: redis.Ping.
Health(ip, err) ==
    /\ query.pc = "none"
    /\ query' = QueryReply("Health", ip, IF err THEN 503 ELSE 200, EmptyBody)
    /\ UNCHANGED <<pipeVars, gc, wait, pow, find, route, eth>>

\* The answer has been sent.
QueryReturn ==
    /\ query.pc = "done"
    /\ query' = NoQuery
    /\ UNCHANGED <<pipeVars, gc, wait, pow, find, route, eth>>

NextQuery ==
    \/ query.pc = "none" /\ NextDaily
    \/ \E ip \in Callers, network \in NetworkInputs, addrOK \in BOOLEAN,
          err \in BOOLEAN : GetStatus(ip, network, addrOK, err)
    \/ \E ip \in Callers, network \in NetworkInputs,
          failing \in {{}} \cup {{t} : t \in Tokens} : GetInfo(ip, network, failing)
    \/ \E ip \in Callers, err \in BOOLEAN,
          failing \in {{}} \cup {{a} : a \in Accounts} : GetQuota(ip, err, failing)
    \/ \E ip \in Callers, err \in BOOLEAN : Health(ip, err)
    \/ QueryReturn

SpecQuery == Init /\ [][NextQuery]_vars

\* ------------------------------------------------------------ SpecRoute
\* The network of a request, from the body to the chain and the throttle
\* keys: the requests of one caller, one after the other within one hour
\* (no marker expires), every gate but the hourly throttle passing and every
\* transfer succeeding.  A BOTH request is followed one token at a time.

\* A faulty variant of ThrottleNetwork: the name as the body carries it.
ThrottleNetworkRaw(network) == network

\* Lines 625-628: the network name handleBothTokensRequest sets the throttle
\* markers under.
ThrottleNetworkBoth(network) == IF network = "" THEN DefaultNetwork ELSE network

InitRoute ==
    /\ InitPipeline
    /\ gc = NoIssuers /\ wait = NoWait /\ pow = NoPow
    /\ find = NoFind /\ query = NoQuery /\ eth = NoEth
    /\ route = [pc |-> "idle", begun |-> 0, network |-> "", both |-> FALSE,
                chain |-> "", key |-> <<>>, result |-> "",
                marks |-> {}, grants |-> [a \in Accounts |-> 0]]

\* Lines 168-292 for a token of the request: getChain, ValidateToken and
\* CheckTokenHourlyThrottle under the key of lines 250-253.
RouteRequest(ip, network, token, both) ==
    /\ route.pc = "idle"
    /\ route.begun < MaxRouteRequests
    /\ LET chain == ChainKey(network)
           key == <<ip, ThrottleNetwork(network), token>>
           r == [route EXCEPT !.begun = @ + 1, !.network = network,
                              !.both = both, !.chain = "", !.key = <<>>]
       IN route' =
            IF ~GetChainOK(network)
            THEN [r EXCEPT !.pc = "done", !.result = "unsupported network"]
            ELSE IF ~ValidateToken(chain, token)
            THEN [r EXCEPT !.pc = "done", !.result = "invalid token"]
            ELSE IF key \in route.marks
            THEN [r EXCEPT !.pc = "done", !.result = "HOURLY LIMIT",
                           !.chain = chain, !.key = key]
            ELSE [r EXCEPT !.pc = "transfer", !.result = "",
                           !.chain = chain, !.key = key]
    /\ UNCHANGED <<pipeVars, gc, wait, pow, find, query, eth>>

\* Lines 378-408 and 596-633: the chain transfers the token and the marker
\* is set, by RequestTokens under the name of line 250, by
\* handleBothTokensRequest under the name of line 625.
RouteTransfer ==
    /\ route.pc = "transfer"
    /\ LET token == route.key[3]
           network == IF route.both THEN ThrottleNetworkBoth(route.network)
                      ELSE ThrottleNetwork(route.network)
       IN route' = [route EXCEPT
                        !.pc = "done", !.result = "sent",
                        !.grants[<<route.chain, token>>] = @ + 1,
                        !.marks = @ \cup {<<route.key[1], network, token>>}]
    /\ UNCHANGED <<pipeVars, gc, wait, pow, find, query, eth>>

\* The response has been sent.
RouteReturn ==
    /\ route.pc = "done"
    /\ route' = [route EXCEPT !.pc = "idle"]
    /\ UNCHANGED <<pipeVars, gc, wait, pow, find, query, eth>>

NextRoute ==
    \/ \E ip \in Callers, network \in NetworkInputs, token \in Tokens,
          both \in BOOLEAN : RouteRequest(ip, network, token, both)
    \/ RouteTransfer
    \/ RouteReturn

SpecRoute == InitRoute /\ [][NextRoute]_vars

\* ------------------------------------------------------------ SpecNonce
\* Client.TransferTokens (client.go 62-107) call by call, several calls
\* running at once on one client: the handlers call it with no lock, and
\* the client holds none.  The node keeps the account's pending nonce; it
\* takes a transaction whose nonce is the pending one and refuses another.

TransferSlots == 1..NTransfers

IdleTransfer == [pc |-> "idle", id |-> 0, nonce |-> 0, result |-> ""]

InitNonce ==
    /\ InitPipeline
    /\ gc = NoIssuers /\ wait = NoWait /\ pow = NoPow
    /\ find = NoFind /\ query = NoQuery /\ route = NoRoute
    /\ eth = [pending |-> 0, begun |-> 0, sent |-> {},
              call |-> [s \in TransferSlots |-> IdleTransfer]]

\* Lines 68-79: the token is ETH; PendingNonceAt reads the account's nonce.
TT_PendingNonceAt(s, token, err) ==
    /\ eth.call[s].pc = "idle"
    /\ eth.begun < MaxTransferCalls
    /\ LET c == [IdleTransfer EXCEPT !.id = eth.begun + 1]
       IN eth' = [eth EXCEPT !.begun = @ + 1, !.call[s] =
            IF token # "ETH"
            THEN [c EXCEPT !.pc = "done", !.result = "unsupported token"]
            ELSE IF err
            THEN [c EXCEPT !.pc = "done", !.result = "failed to get nonce"]
            ELSE [c EXCEPT !.pc = "sign", !.nonce = eth.pending]]
    /\ UNCHANGED <<pipeVars, gc, wait, pow, find, query, route>>

\* Lines 81-98: SuggestGasPrice, NewTransaction with the nonce, SignTx.
TT_SignTx(s, err) ==
    /\ eth.call[s].pc = "sign"
    /\ eth' = [eth EXCEPT !.call[s] =
            IF err THEN [@ EXCEPT !.pc = "done", !.result = "failed to sign"]
            ELSE [@ EXCEPT !.pc = "send"]]
    /\ UNCHANGED <<pipeVars, gc, wait, pow, find, query, route>>

\* Lines 100-106: SendTransaction submits the signed transaction (sent: the
\* call and the nonce it signed).
TT_SendTransaction(s) ==
    /\ eth.call[s].pc = "send"
    /\ LET c == eth.call[s]
           taken == c.nonce = eth.pending
       IN eth' = [eth EXCEPT
                    !.sent = @ \cup {<<c.id, c.nonce>>},
                    !.pending = IF taken THEN @ + 1 ELSE @,
                    !.call[s] = [c EXCEPT !.pc = "done", !.result =
                        IF taken THEN "hash"
                        ELSE "failed to send transaction"]]
    /\ UNCHANGED <<pipeVars, gc, wait, pow, find, query, route>>

\* TransferTokens has returned.
TT_Return(s) ==
    /\ eth.call[s].pc = "done"
    /\ eth' = [eth EXCEPT !.call[s] = IdleTransfer]
    /\ UNCHANGED <<pipeVars, gc, wait, pow, find, query, route>>

NextNonce ==
    \/ \E s \in TransferSlots, token \in Tokens, err \in BOOLEAN :
            TT_PendingNonceAt(s, token, err)
    \/ \E s \in TransferSlots, err \in BOOLEAN : TT_SignTx(s, err)
    \/ \E s \in TransferSlots : TT_SendTransaction(s)
    \/ \E s \in TransferSlots : TT_Return(s)

SpecNonce == InitNonce /\ [][NextNonce]_vars

\* ------------------------------------------------------------ properties

\* The calls of an invocation that returned out.
Calls(q, op, out) == {t \in Tokens \cup {""} : <<op, t, out>> \in q.log}

Running(r) == req[r].pc \notin {"idle", "done"}

\* C1: for every caller, the daily units committed in the current window
\* never exceed the daily cap MaxRequestsPerDayIP.
C1_DailyUnitsWithinCap ==
    \A ip \in IPs : daily[ip].n <= MaxRequestsPerDayIP

\* C2 as stated: for every token, the global hourly and daily totals never
\* exceed the caps any chain configures for the token.
C2_TotalsWithinEveryCap ==
    \A c \in Chains : \A t \in SeqRange(GetSupportedTokens(c)) :
        /\ ghour[t].v <= GetMaxTokensPerHour(c, t)
        /\ gday[t].v <= GetMaxTokensPerDay(c, t)

\* The largest limit the chains that offer the token configure for it.
LargestHourly(t) ==
    CHOOSE m \in {GetMaxTokensPerHour(c, t) :
                    c \in {d \in Chains : t \in SeqRange(GetSupportedTokens(d))}} :
        \A c \in Chains : t \in SeqRange(GetSupportedTokens(c))
                            => GetMaxTokensPerHour(c, t) <= m

LargestDaily(t) ==
    CHOOSE m \in {GetMaxTokensPerDay(c, t) :
                    c \in {d \in Chains : t \in SeqRange(GetSupportedTokens(d))}} :
        \A c \in Chains : t \in SeqRange(GetSupportedTokens(c))
                            => GetMaxTokensPerDay(c, t) <= m

\* C2, amended: the totals of a token are shared by the chains that offer
\* it; they never exceed the largest hourly and daily cap configured for
\* the token, however the TrackGlobalDistribution calls interleave.
C2_TotalsWithinLargestCap ==
    \A t \in Tokens :
        /\ ghour[t].v <= LargestHourly(t)
        /\ gday[t].v <= LargestDaily(t)

\* C2 happens: of two invocations running at once, TrackGlobalDistribution
\* admitted one and denied the other for the same token.
C2_Witness ==
    \E r1, r2 \in Slots : \E t \in Tokens :
        /\ r1 # r2
        /\ Running(r1)
        /\ t \in Calls(req[r1], "TrackGlobalDistribution", "ok")
        /\ t \in Calls(req[r2], "TrackGlobalDistribution", "deny")

\* C3: the PoW gate accepts every challenge id at most once.
C3_ChallengeAcceptedOnce ==
    \A c \in ChalIds : accepted[c] <= 1

\* C4: no two transfers of one (caller, network, token) are less than an
\* hour apart.
C4_TransfersAnHourApart ==
    \A k \in ThrottleKeys : Len(xfers[k]) <= 1

\* The invocation passed the throttle check of the token and has not yet
\* called SetTokenHourlyThrottle for it.
PastThrottle(r, t) ==
    /\ Running(r)
    /\ t \in Calls(req[r], "CheckTokenHourlyThrottle", "ok")
    /\ t \notin Calls(req[r], "SetTokenHourlyThrottle", "ok")
    /\ t \notin Calls(req[r], "SetTokenHourlyThrottle", "err")

\* C5: of two requests for one (caller, network, token) processed at once,
\* only one passes CheckTokenHourlyThrottle.
C5_OnePassesThrottle ==
    \A r1, r2 \in Slots : \A t \in Tokens :
        (r1 # r2 /\ req[r1].ip = req[r2].ip /\ NetOf(req[r1]) = NetOf(req[r2]))
            => ~(PastThrottle(r1, t) /\ PastThrottle(r2, t))

\* Every gate before the transfer of token t let the invocation pass.
GatesPassed(q, t) ==
    /\ "" \in Calls(q, "getChain", "ok")
    /\ "" \in Calls(q, "ValidateAddress", "ok")
    /\ t \in SeqRange(GetSupportedTokens(ChainOf(q)))
    /\ q.token # "BOTH" => t = q.token /\ t \in Calls(q, "ValidateToken", "ok")
    /\ "" \in Calls(q, "CheckIPDailyLimit", "ok")
    /\ t \in Calls(q, "CheckTokenHourlyThrottle", "ok")
    /\ "" \in Calls(q, "GetChallenge", "ok")
    /\ "" \in Calls(q, "VerifyPoW", "ok")
    /\ t \in Calls(q, "TrackGlobalDistribution", "ok")
    /\ t \in Calls(q, "GetBalance", "ok")

\* C6: TransferTokens is invoked for a token only in a request for which
\* every earlier gate has passed: validation, daily quota, hourly throttle
\* of the token, challenge lookup and PoW, global distribution and balance
\* guard of the token.
C6_TransferAfterEveryGate ==
    \A r \in Slots :
        /\ req[r].pc = "transfer" => GatesPassed(req[r], req[r].token)
        /\ req[r].pc = "bothTransfer" =>
              GatesPassed(req[r], GetSupportedTokens(ChainOf(req[r]))[req[r].idx])
        /\ \A t \in Tokens :
              t \in Calls(req[r], "TransferTokens", "ok")
                    \cup Calls(req[r], "TransferTokens", "err")
                  => GatesPassed(req[r], t)

\* C6 happens: a BOTH request is about to transfer its second token.
C6_Witness ==
    \E r \in Slots : req[r].pc = "bothTransfer" /\ req[r].idx = 2

\* C7: the balance guard denies a transfer exactly when
\* balance - amount < balance * pct / 100 (a transfer that leaves exactly
\* the reserve is allowed), in RequestTokens and handleBothTokensRequest
\* alike.
C7_GuardDeniesBelowReserve ==
    guard.pc = "out" =>
        /\ guard.low <=> (guard.wei - guard.amount * WeiPerUnit) * 100
                            < guard.wei * guard.pct
        /\ guard.lowBoth = guard.low

\* C8: a request that is rejected at a gate, or whose transfer fails,
\* leaves no commit behind: no daily units, no throttle marker, and no
\* amount in the global totals for a token that was not transferred.
C8_FailureLeavesNoCommit ==
    \A r \in Slots : req[r].pc = "done" =>
        /\ req[r].status # 200 =>
              /\ Calls(req[r], "IncrementIPDailyLimit", "ok") = {}
              /\ Calls(req[r], "SetTokenHourlyThrottle", "ok") = {}
        /\ \A t \in Tokens :
              t \in Calls(req[r], "TrackGlobalDistribution", "ok")
                  => t \in Calls(req[r], "TransferTokens", "ok")

\* C9: a BOTH request of which only some tokens were transferred charges
\* the caller's daily quota with exactly the number of tokens transferred.
C9_PartialSuccessCharge ==
    \A r \in Slots :
        (/\ req[r].token = "BOTH"
         /\ req[r].failed # ""
         /\ "" \in Calls(req[r], "IncrementIPDailyLimit", "ok"))
            => req[r].charged = Len(req[r].txs)

Submits(q, t) ==
    \/ t \in Calls(q, "TransferTokens", "ok") \cup Calls(q, "TransferTokens", "err")
    \/ q.pc = "transfer" /\ q.token = t
    \/ q.pc = "bothTransfer" /\ GetSupportedTokens(ChainOf(q))[q.idx] = t

\* C11: an error of CheckIPDailyLimit, CheckTokenHourlyThrottle,
\* GetChallenge, TrackGlobalDistribution or of the balance read is never an
\* implicit allow: no transfer is submitted for the affected token and the
\* request is not reported as successful for it.
C11_ErrorNeverAllows ==
    \A r \in Slots :
        LET q == req[r]
        IN /\ ("" \in Calls(q, "CheckIPDailyLimit", "err")
                        \cup Calls(q, "GetChallenge", "err")
                \/ Calls(q, "CheckTokenHourlyThrottle", "err") # {})
               => /\ q.pc = "done" /\ q.status # 200
                  /\ q.txs = <<>>
                  /\ \A t \in Tokens : ~Submits(q, t)
           /\ \A t \in Tokens :
                t \in Calls(q, "TrackGlobalDistribution", "err")
                        \cup Calls(q, "GetBalance", "err")
                    => /\ ~Submits(q, t)
                       /\ t \notin SeqRange(q.txs)
                       /\ q.token # "BOTH" => q.pc = "done" /\ q.status # 200

\* C11 happens: a BOTH request was answered after STRK was transferred and
\* TrackGlobalDistribution failed for ETH.
C11_Witness ==
    \E r \in Slots :
        /\ req[r].pc = "done"
        /\ "ETH" \in Calls(req[r], "TrackGlobalDistribution", "err")
        /\ req[r].txs = <<"STRK">>

\* C12: every success response comes with its commits, also when the
\* counter store fails during the commit calls: after a single-token
\* success the daily counter was incremented and the token's throttle marker
\* set; after a BOTH response the throttle marker of every token it lists
\* was set.
C12_SuccessCommitted ==
    \A r \in Slots :
        (req[r].pc = "done" /\ req[r].status = 200) =>
            LET q == req[r]
            IN IF q.token # "BOTH"
               THEN /\ "" \in Calls(q, "IncrementIPDailyLimit", "ok")
                    /\ q.token \in Calls(q, "SetTokenHourlyThrottle", "ok")
               ELSE SeqRange(q.txs) \subseteq Calls(q, "SetTokenHourlyThrottle", "ok")

\* C13: once the PoW gate has accepted a solution for a challenge and the
\* accepting invocation has gone past its DeleteChallenge call, the
\* challenge is absent from the store in every later state.
C13_ConsumedChallengeAbsent ==
    \A c \in ChalIds :
        (accepted[c] > 0 /\ \A r \in Slots : ~(req[r].pc = "delete" /\ req[r].chal = c))
            => chal[c] = 0

\* The invocation made a commit call (IncrementIPDailyLimit or
\* SetTokenHourlyThrottle).
Commits(q) ==
    Calls(q, "IncrementIPDailyLimit", "ok") \cup Calls(q, "IncrementIPDailyLimit", "err")
        \cup Calls(q, "SetTokenHourlyThrottle", "ok")
        \cup Calls(q, "SetTokenHourlyThrottle", "err")

\* C14: the throttle marker of (caller, network, token) and the caller's
\* daily counter are written only by a request for which TransferTokens has
\* returned success (for that token, in the marker's case); a request none
\* of whose transfers succeeded makes no commit call.
C14_CommitsAfterTransfer ==
    [][/\ \A k \in ThrottleKeys :
            throttle'[k] > throttle[k] =>
                \E r \in Slots :
                    /\ req[r].ip = k[1] /\ NetOf(req[r]) = k[2]
                    /\ k[3] \in Calls(req[r], "TransferTokens", "ok")
       /\ \A ip \in IPs :
            daily'[ip].n > daily[ip].n =>
                \E r \in Slots :
                    req[r].ip = ip /\ Calls(req[r], "TransferTokens", "ok") # {}
       /\ \A r \in Slots :
            Calls(req'[r], "TransferTokens", "ok") = {} => Commits(req'[r]) = {}
      ]_vars

\* C14 happens: a request whose transfer failed was answered; the caller has
\* no throttle marker for the token and an unchanged daily counter.
C14_Witness ==
    \E r \in Slots :
        /\ req[r].pc = "done" /\ req[r].token # "BOTH"
        /\ req[r].token \in Calls(req[r], "TransferTokens", "err")
        /\ throttle[<<req[r].ip, NetOf(req[r]), req[r].token>>] = 0
        /\ daily[req[r].ip].n = 0

\* The calls of an invocation, whatever they returned.
Called(q, op) ==
    Calls(q, op, "ok") \cup Calls(q, op, "deny") \cup Calls(q, op, "err")

\* The tokens a request asks for.
Requested(q) ==
    IF q.token = "BOTH" THEN SeqRange(GetSupportedTokens(ChainOf(q)))
    ELSE {q.token}

\* The place of a call in the pipeline of RequestTokens.
Rank(op) ==
    CASE op \in {"getChain", "ValidateAddress", "ValidateToken"} -> 0
      [] op = "CheckIPDailyLimit" -> 10
      [] op = "GetIPDailyQuota" -> 15
      [] op = "CheckTokenHourlyThrottle" -> 20
      [] op = "GetChallenge" -> 30
      [] op = "VerifyPoW" -> 40
      [] op = "DeleteChallenge" -> 50
      [] op = "TrackGlobalDistribution" -> 60
      [] op = "GetBalance" -> 70
      [] op = "TransferTokens" -> 80
      [] OTHER -> 90

\* The gates of an invocation that did not let it pass.
FailedGates(q) ==
    {e \in q.log : e[3] \in {"deny", "err"} /\ Rank(e[1]) \in {10, 20, 30, 40, 60, 70, 80}}

\* The calls of the invocation that come after gate e in the pipeline (of
\* the same token, in the loop of a BOTH request).
LaterCalls(q, e) ==
    {f \in q.log : /\ Rank(f[1]) > Rank(e[1])
                   /\ q.token # "BOTH" \/ f[2] = e[2] \/ f[2] = "" \/ e[2] = ""}

\* The status RequestTokens answers with when gate e fails.
StatusOf(e) ==
    CASE e[1] \in {"GetChallenge", "VerifyPoW"} -> 400
      [] e[3] = "err" -> 500
      [] e[1] \in {"CheckIPDailyLimit", "CheckTokenHourlyThrottle"} -> 429
      [] OTHER -> 503

\* C15 as stated: the first failing gate determines the response, and the
\* invocation makes no later gate, store or chain call.
C15_NoCallAfterFailedGate ==
    \A r \in Slots : \A e \in FailedGates(req[r]) :
        /\ LaterCalls(req[r], e) = {}
        /\ req[r].pc = "done" => req[r].status = StatusOf(e)

\* Every call of the invocation was made after the gates before it passed.
InOrder(q) ==
    /\ Called(q, "CheckIPDailyLimit") # {} =>
          /\ "" \in Calls(q, "getChain", "ok")
          /\ "" \in Calls(q, "ValidateAddress", "ok")
          /\ q.token # "BOTH" => q.token \in Calls(q, "ValidateToken", "ok")
    /\ Called(q, "GetIPDailyQuota") # {} => "" \in Calls(q, "CheckIPDailyLimit", "deny")
    /\ Called(q, "CheckTokenHourlyThrottle") # {} =>
          "" \in Calls(q, "CheckIPDailyLimit", "ok")
    /\ Called(q, "GetChallenge") # {} =>
          Requested(q) \subseteq Calls(q, "CheckTokenHourlyThrottle", "ok")
    /\ Called(q, "VerifyPoW") # {} => "" \in Calls(q, "GetChallenge", "ok")
    /\ Called(q, "DeleteChallenge") # {} => "" \in Calls(q, "VerifyPoW", "ok")
    /\ \A t \in Called(q, "TrackGlobalDistribution") :
          /\ t \in Requested(q)
          /\ Called(q, "DeleteChallenge") # {}
          /\ \A i, j \in 1..Len(GetSupportedTokens(ChainOf(q))) :
                (q.token = "BOTH" /\ i < j /\ GetSupportedTokens(ChainOf(q))[j] = t) =>
                    GetSupportedTokens(ChainOf(q))[i] \in Calls(q, "TransferTokens", "ok")
    /\ Called(q, "GetBalance") \subseteq Calls(q, "TrackGlobalDistribution", "ok")
    /\ Called(q, "TransferTokens") \subseteq Calls(q, "GetBalance", "ok")
    /\ Commits(q) # {} => Calls(q, "TransferTokens", "ok") # {}

\* C15, amended: the gates are evaluated in the order validation, daily
\* quota, hourly throttle, challenge lookup and PoW, global distribution
\* cap, balance guard, transfer (the last three once per token in the loop
\* of a BOTH request); at most one gate fails; after it the invocation
\* makes no later gate, store or chain call except the GetIPDailyQuota read
\* of the daily-limit message and, in a BOTH request, the commits of the
\* tokens already transferred; the failing gate determines the response
\* (for a token of the BOTH loop: the token named, 500 if nothing was
\* transferred, else 200).
C15_GateOrder ==
    \A r \in Slots :
        LET q == req[r]
        IN /\ InOrder(q)
           /\ Cardinality(FailedGates(q)) <= 1
           /\ \A e \in FailedGates(q) :
                LET loop == q.token = "BOTH" /\ Rank(e[1]) >= 60
                IN /\ \A f \in LaterCalls(q, e) :
                        \/ f[1] = "GetIPDailyQuota"
                        \/ loop /\ Rank(f[1]) = 90
                   /\ (q.pc = "done" /\ ~loop) => q.status = StatusOf(e)
                   /\ (q.pc = "done" /\ loop) =>
                        /\ q.named = e[2]
                        /\ q.status = IF q.txs = <<>> THEN 500 ELSE 200

\* C15 happens: a request was rejected for lack of daily quota after the
\* GetIPDailyQuota read.
C15_Witness ==
    \E r \in Slots :
        /\ req[r].pc = "done" /\ req[r].msg = "DAILY LIMIT exceed"
        /\ "" \in Calls(req[r], "GetIPDailyQuota", "ok")

\* The store and chain calls of an invocation.
StoreOrChainCalls(q) == {e \in q.log : Rank(e[1]) > 0}

\* C16: a request with an unparsable body, an unsupported network, an
\* invalid address or a token (other than BOTH) that fails ValidateToken is
\* answered 400 before any counter-store or chain call: an invocation that
\* goes past validation or makes such a call carries a registered network,
\* a valid address and BOTH or a token of the chain, and an invocation
\* answered without any such call was answered 400.
C16_ValidationBeforeStore ==
    \A r \in Slots :
        LET q == req[r]
        IN /\ (q.pc \notin {"idle", "done"} \/ StoreOrChainCalls(q) # {}) =>
                /\ q.network \in Chains
                /\ "" \in Calls(q, "ValidateAddress", "ok")
                /\ \/ q.token = "BOTH"
                   \/ q.token \in SeqRange(GetSupportedTokens(q.network))
           /\ (q.pc = "done" /\ StoreOrChainCalls(q) = {}) =>
                /\ q.status = 400
                /\ q.msg \in {"Invalid request body", "unsupported network",
                              "Invalid address", "invalid token"}

\* C16 happens: a request for a token the chain does not offer was
\* answered.
C16_Witness ==
    \E r \in Slots :
        /\ req[r].pc = "done" /\ req[r].msg = "invalid token"
        /\ req[r].log = {}

\* C17: for a caller with no requests today, sequential single-token
\* requests pass the daily gate while the counter is below the cap; the
\* commit that brings the counter to the cap sets the cooldown marker; and
\* while the marker is present a request is rejected as rate-limited (429)
\* with the remaining cooldown.
C17_CapThenCooldown ==
    [][\A r \in Slots :
        LET q == req[r]
        IN /\ (q.pc = "daily" /\ req'[r].pc # "daily") =>
                /\ (/\ cooldown[q.ip] = 0
                    /\ q.token # "BOTH"
                    /\ daily[q.ip].n < MaxRequestsPerDayIP)
                      => req'[r].pc = "throttle"
                /\ cooldown[q.ip] > 0 =>
                      /\ req'[r].pc = "done"
                      /\ req'[r].status = 429
                      /\ req'[r].msg = "DAILY LIMIT cooldown"
           /\ (q.pc = "incr" /\ req'[r].pc # "incr") =>
                /\ daily'[q.ip].n = daily[q.ip].n + 1
                /\ cooldown'[q.ip] =
                      IF daily'[q.ip].n >= MaxRequestsPerDayIP THEN DayTicks
                      ELSE cooldown[q.ip]
      ]_vars

\* C17 happens: after single-token transfers on two networks brought the
\* caller's counter to the cap, the next request was rejected with the
\* remaining cooldown.
C17_Witness ==
    /\ daily["ip1"].n = MaxRequestsPerDayIP
    /\ balance[<<"ethereum", "ETH">>] < InitBalance
    /\ balance[<<"starknet", "STRK">>] < InitBalance
    /\ balance[<<"starknet", "ETH">>] = InitBalance
    /\ \E r \in Slots :
        req[r].pc = "done" /\ req[r].msg = "DAILY LIMIT cooldown"

\* TrackGlobalDistribution answered out for token t in this step.
Tracked(r, t, out) ==
    /\ t \in Calls(req'[r], "TrackGlobalDistribution", out)
    /\ t \notin Calls(req[r], "TrackGlobalDistribution", out)

\* C18: a request rejected by the global distribution check consumes no
\* headroom: the totals are as before; a request is admitted only if its
\* amount fits within the hourly and daily caps, also among concurrent
\* requests, and it is rejected only if the amount does not fit, so a later
\* request for an amount within the remaining headroom is admitted.
C18_DenialKeepsHeadroom ==
    [][\A r \in Slots : \A t \in Tokens :
        LET chain == ChainOf(req'[r])
            amount == GetDripAmount(chain, t)
        IN /\ Tracked(r, t, "deny") =>
                /\ ghour' = ghour /\ gday' = gday
                /\ \/ ghour[t].v + amount > GetMaxTokensPerHour(chain, t)
                   \/ gday[t].v + amount > GetMaxTokensPerDay(chain, t)
           /\ Tracked(r, t, "ok") =>
                /\ ghour'[t].v = ghour[t].v + amount
                /\ gday'[t].v = gday[t].v + amount
                /\ ghour'[t].v <= GetMaxTokensPerHour(chain, t)
                /\ gday'[t].v <= GetMaxTokensPerDay(chain, t)
      ]_vars

\* C18 happens: a request was rejected by the global distribution check
\* while the hourly total was below the cap.
C18_Witness ==
    \E r \in Slots : \E t \in Tokens :
        /\ t \in Calls(req[r], "TrackGlobalDistribution", "deny")
        /\ ghour[t].v > 0
        /\ ghour[t].v < GetMaxTokensPerHour(ChainOf(req[r]), t)
        /\ gday[t].v < GetMaxTokensPerDay(ChainOf(req[r]), t)

\* C19: a challenge is stored with the configured TTL and is gone when the
\* TTL has elapsed; a submission whose challenge is not in the store is
\* rejected 400 'Invalid or expired challenge' whatever its nonce, never
\* passes the PoW gate, and no transfer is made.
C19_ExpiredChallengeRejected ==
    [][/\ \A c \in ChalIds :
            /\ chal'[c] > chal[c] => chal[c] = 0 /\ chal'[c] = ChallengeTicks
            /\ chal'[c] < chal[c] => chal'[c] \in {0, chal[c] - 1}
            /\ chal'[c] <= ChallengeTicks
       /\ \A r \in Slots :
            /\ (req[r].pc = "challenge" /\ req'[r].pc = "delete") =>
                    chal[req'[r].chal] > 0
            /\ "" \in Calls(req'[r], "GetChallenge", "deny") =>
                    /\ req'[r].pc = "done"
                    /\ req'[r].status = 400
                    /\ req'[r].msg = "Invalid or expired challenge"
                    /\ Called(req'[r], "VerifyPoW") = {}
                    /\ Called(req'[r], "TransferTokens") = {}
      ]_vars

\* C19 happens: every challenge issued has expired unused and a submission
\* was rejected as invalid or expired.
C19_Witness ==
    /\ issued # {}
    /\ \A c \in issued : chal[c] = 0 /\ accepted[c] = 0
    /\ faults = 0
    /\ \E r \in Slots :
        /\ req[r].pc = "done" /\ req[r].msg = "Invalid or expired challenge"
        /\ "" \in Calls(req[r], "GetChallenge", "deny")

\* C20: the daily quota gate.  With a cooldown marker present for the caller
\* the request is denied 429 with the remaining cooldown, whatever the
\* counter; without one the request passes the gate if and only if
\* used + units <= daily cap, units being 1 for a single token and 2 for
\* BOTH, and is otherwise denied 429 for lack of quota.
C20_DailyGate ==
    [][\A r \in Slots :
        LET q == req[r]
            used == daily[q.ip].n
            units == IF q.token = "BOTH" THEN 2 ELSE 1
        IN (q.pc = "daily" /\ req'[r].pc # "daily" /\ faults' = faults) =>
            /\ cooldown[q.ip] > 0 =>
                  /\ req'[r].pc = "done"
                  /\ req'[r].status = 429
                  /\ req'[r].msg = "DAILY LIMIT cooldown"
            /\ cooldown[q.ip] = 0 =>
                  /\ req'[r].pc = "throttle" <=>
                        used + units <= MaxRequestsPerDayIP
                  /\ req'[r].pc # "throttle" =>
                        /\ req'[r].pc = "done"
                        /\ req'[r].status = 429
                        /\ req'[r].msg = "DAILY LIMIT exceed"
      ]_vars

\* C20 happens: with one unit used and no cooldown a BOTH request was denied
\* for lack of quota.
C20_Witness ==
    \E r \in Slots :
        /\ req[r].pc = "done" /\ req[r].msg = "DAILY LIMIT exceed"
        /\ req[r].token = "BOTH"
        /\ daily[req[r].ip].n = MaxRequestsPerDayIP - 1
        /\ cooldown[req[r].ip] = 0

\* A handler acts in this step (the clock does not).
HandlerStep == req' # req \/ issued' # issued

\* C21: every quota counter and marker is non-decreasing within its window:
\* no handler operation decrements, zeroes or deletes the daily counter, the
\* cooldown marker, a throttle marker, a global total or the issuance
\* counter; one returns to its absent state only when its TTL expires.
C21_CountersOnlyExpire ==
    [][/\ HandlerStep =>
            /\ \A ip \in IPs :
                /\ daily'[ip].n >= daily[ip].n
                /\ cooldown'[ip] >= cooldown[ip]
                /\ chalCount'[ip].n >= chalCount[ip].n
            /\ \A k \in ThrottleKeys : throttle'[k] >= throttle[k]
            /\ \A t \in Tokens :
                /\ ghour'[t].v >= ghour[t].v
                /\ gday'[t].v >= gday[t].v
       /\ \A ip \in IPs :
            /\ daily'[ip].n < daily[ip].n =>
                    daily[ip].ttl <= 1 /\ daily'[ip].n = 0
            /\ chalCount'[ip].n < chalCount[ip].n =>
                    chalCount[ip].ttl <= 1 /\ chalCount'[ip].n = 0
            /\ (cooldown[ip] > 0 /\ cooldown'[ip] = 0) => cooldown[ip] = 1
       /\ \A k \in ThrottleKeys :
            (throttle[k] > 0 /\ throttle'[k] = 0) => throttle[k] = 1
       /\ \A t \in Tokens :
            /\ ghour'[t].v < ghour[t].v =>
                    ghour[t].ttl <= 1 /\ ghour'[t].v = 0
            /\ gday'[t].v < gday[t].v =>
                    gday[t].ttl <= 1 /\ gday'[t].v = 0
      ]_vars

\* C21 happens: every kind of counter and marker is in use at once.
C21_Witness ==
    /\ \E ip \in IPs :
        daily[ip].n > 0 /\ cooldown[ip] > 0 /\ chalCount[ip].n > 0
    /\ \E k \in ThrottleKeys : throttle[k] > 0
    /\ \E t \in Tokens : ghour[t].v > 0 /\ gday[t].v > 0

\* What the caller is sent: the status, the text and the token it names.
Response(q) == <<q.status, q.msg, q.named>>

\* The invocation was answered without a transfer because a gate failed
\* with outcome out ("err": the collaborator failed, "deny": it rejected).
AnsweredOn(q, out) ==
    /\ q.pc = "done"
    /\ q.txs = <<>>
    /\ \E e \in FailedGates(q) : e[3] = out

\* C22: a transient collaborator failure surfaces as a response that differs
\* from every rejection's: no request answered because a store or chain call
\* failed gets the status and message that a request rejected by a gate
\* gets (in particular the PoW rejection of a missing challenge).
C22_FailureDistinguishable ==
    \A r1, r2 \in Slots :
        (AnsweredOn(req[r1], "err") /\ AnsweredOn(req[r2], "deny")) =>
            Response(req[r1]) # Response(req[r2])

\* The gates of the rate limiter.
RateLimitGates ==
    {"CheckIPDailyLimit", "CheckTokenHourlyThrottle", "TrackGlobalDistribution"}

\* C23: every rate-limit rejection (cooldown, daily cap, hourly throttle,
\* global cap) carries a retry-after hint, also the rejection of a request
\* whose cost would exceed the daily cap while no cooldown marker exists.
C23_RejectionCarriesHint ==
    \A r \in Slots :
        (/\ req[r].pc = "done"
         /\ req[r].txs = <<>>
         /\ \E e \in FailedGates(req[r]) :
                e[1] \in RateLimitGates /\ e[3] = "deny")
            => RetryHint(req[r].msg) # ""

\* The taxonomy kind of a failed gate.
Kind(e) ==
    CASE e[1] = "TransferTokens" -> "DisbursementFailed"
      [] e[3] = "err" -> "CollaboratorUnavailable"
      [] e[1] \in RateLimitGates -> "RateLimited"
      [] e[1] = "GetBalance" -> "ReserveExhausted"
      [] OTHER -> "PowError"

\* The kinds of the gates that ended invocation q without a transfer.
KindsOf(q) ==
    IF q.pc = "done" /\ q.txs = <<>>
    THEN {Kind(e) : e \in {f \in FailedGates(q) : f[1] # "GetChallenge"}}
    ELSE {}

\* C24: a gate failure is surfaced as the one taxonomy kind of the failing
\* gate: two requests that ended on gates of different kinds (the global
\* cap, the balance guard, a failed collaborator call, a failed transfer)
\* are answered differently, BOTH requests with no token sent included.
C24_KindIdentifiesGate ==
    \A r1, r2 \in Slots :
        (/\ KindsOf(req[r1]) # {} /\ KindsOf(req[r2]) # {}
         /\ KindsOf(req[r1]) \cap KindsOf(req[r2]) = {})
            => Response(req[r1]) # Response(req[r2])

\* The token the invocation's next TransferTokens call is for.
TransferToken(q) ==
    IF q.token = "BOTH" THEN GetSupportedTokens(ChainOf(q))[q.idx] ELSE q.token

\* C25: a disbursement is never retried: within one request TransferTokens
\* is called at most once per token, and a failed transfer is reported to
\* the caller without a second attempt.
C25_NoTransferRetry ==
    [][\A r \in Slots :
        LET q == req[r]
        IN /\ (q.pc \in {"transfer", "bothTransfer"} /\ req'[r] # q) =>
                /\ \A out \in {"ok", "err"} :
                      TransferToken(q) \notin Calls(q, "TransferTokens", out)
                /\ \E out \in {"ok", "err"} :
                      TransferToken(q) \in Calls(req'[r], "TransferTokens", out)
           /\ Calls(req'[r], "TransferTokens", "err") # {} =>
                /\ req'[r].pc \in {"done", "bothIncr", "bothSetThrottle"}
                /\ req'[r].pc = "done" => req'[r].status # 200 \/ req'[r].txs # <<>>
      ]_vars

\* C25 happens: a BOTH request sent its first token, the transfer of the
\* second failed, and the request was answered.
C25_Witness ==
    \E r \in Slots :
        /\ req[r].pc = "done" /\ req[r].token = "BOTH"
        /\ Calls(req[r], "TransferTokens", "ok") # {}
        /\ Calls(req[r], "TransferTokens", "err") # {}

\* C26: challenge issuance is rate limited per caller: the challenges
\* GetChallenge issued to one IP within one hourly window are never more than
\* MaxChallengesPerHour, whatever the interleaving of the caller's
\* GetChallenge calls and also when the store fails on the increment call.
C26_IssuedWithinLimit ==
    Cardinality({c \in DOMAIN chal : chal[c] > 0}) <= MaxChallengesPerHour

\* C27: WaitForTransaction does not hang: once its context is cancelled or
\* its deadline has passed it returns, and when the receipt never becomes
\* available (every receipt query fails) it returns the context's error.
C27_WaitTerminates ==
    /\ [](wait.pc = "returned" /\ wait.mined = "no" =>
            wait.result = "ctx.Err" /\ wait.ctx # "live")
    /\ (wait.ctx # "live") ~> (wait.pc = "returned")

\* C27 happens: the transaction was never mined, receipt queries failed, and
\* the wait returned the error of its ended context.
C27_Witness ==
    /\ wait.pc = "returned" /\ wait.result = "ctx.Err"
    /\ wait.mined = "no" /\ wait.polls >= 2

C29_BothOnStarknetOnly ==
    \A r \in Slots :
        LET q == req[r]
        IN (q.token = "BOTH" /\ q.pc # "idle" /\ ChainOf(q) # "starknet") =>
            /\ Calls(q, "TransferTokens", "ok") = {}
            /\ Calls(q, "TrackGlobalDistribution", "ok") = {}
            /\ Calls(q, "IncrementIPDailyLimit", "ok") = {}
            /\ Calls(q, "SetTokenHourlyThrottle", "ok") = {}
            /\ q.pc = "done" => q.status # 200

\* The tokens the faucet gives on a network.
TokensOn(chain) == IF chain = "starknet" THEN {"STRK", "ETH"} ELSE {"ETH"}

\* C30: a BOTH request has the hourly throttle of every token of its network
\* checked before the challenge is looked up; if one of them is throttled
\* for (caller, network) the whole request is rejected 429 with the
\* hourly-limit response naming that token, nothing is transferred and the
\* challenge is neither looked up nor deleted.
C30_BothThrottleEveryToken ==
    [][\A r \in Slots :
        LET q == req[r]
            p == req'[r]
            token == GetSupportedTokens(ChainOf(q))[q.idx]
        IN /\ (/\ q.pc = "throttle" /\ q.token = "BOTH"
               /\ p # q /\ faults' = faults) =>
                IF throttle[<<q.ip, NetOf(q), token>>] > 0
                THEN /\ p.pc = "done" /\ p.status = 429
                     /\ p.msg = "HOURLY LIMIT" /\ p.named = token
                     /\ Called(p, "GetChallenge") = {}
                     /\ Called(p, "DeleteChallenge") = {}
                     /\ Called(p, "TransferTokens") = {}
                     /\ chal' = chal /\ balance' = balance
                ELSE p.pc \in {"throttle", "challenge"}
           /\ (p.token = "BOTH" /\ p.pc = "challenge") =>
                \A t \in TokensOn(ChainOf(p)) :
                    t \in Calls(p, "CheckTokenHourlyThrottle", "ok")
      ]_vars

\* C30 happens: a BOTH request was rejected because its second token was
\* throttled, the first one being free.
C30_Witness ==
    \E r \in Slots :
        /\ req[r].pc = "done" /\ req[r].token = "BOTH"
        /\ req[r].msg = "HOURLY LIMIT" /\ req[r].named = "ETH"
        /\ "STRK" \in Calls(req[r], "CheckTokenHourlyThrottle", "ok")
        /\ "ETH" \in Calls(req[r], "CheckTokenHourlyThrottle", "deny")

\* C31: a request rejected at the validation, daily-quota or hourly-throttle
\* gate does not consume a challenge: the invocation has neither looked a
\* challenge up nor deleted one, every challenge in the store is still there,
\* and a later submission for a challenge that is in the store is not
\* answered 'Invalid or expired challenge'.
C31_RejectionKeepsChallenge ==
    [][\A r \in Slots :
        LET q == req[r]
            p == req'[r]
        IN /\ (q.pc \in {"idle", "daily", "throttle"} /\ p.pc = "done") =>
                /\ chal' = chal
                /\ accepted' = accepted
                /\ Called(p, "GetChallenge") = {}
                /\ Called(p, "DeleteChallenge") = {}
           /\ (/\ q.pc = "challenge" /\ p # q /\ faults' = faults
               /\ \A c \in ChalIds : chal[c] > 0) =>
                p.msg # "Invalid or expired challenge"
      ]_vars

\* C31 happens: a request was rejected at the hourly throttle while a
\* challenge no submission had been accepted for was in the store.
C31_Witness ==
    \E r \in Slots : \E c \in ChalIds :
        /\ req[r].pc = "done" /\ req[r].msg = "HOURLY LIMIT"
        /\ req[r].token # "BOTH"
        /\ chal[c] > 0 /\ accepted[c] = 0

\* C32: configuration selection keeps test and production settings apart:
\* in test mode FindConfigFile returns only a file named config.test.json,
\* outside test mode only a file named config.json; the file it returns
\* exists; and when no file of the mode's name exists it returns an error,
\* never the other mode's file.
C32_ConfigModesApart ==
    find.pc = "out" =>
        LET wanted == IF find.isTestMode THEN "config.test.json" ELSE "config.json"
        IN /\ ~find.err => find.path \in find.files /\ find.path[3] = wanted
           /\ (\A f \in find.files : f[3] # wanted) => find.err

\* C32 happens: in test mode, with production files in config/ and at the
\* root and no test file anywhere, FindConfigFile returned an error.
C32_Witness ==
    /\ find.pc = "out" /\ find.isTestMode /\ find.err
    /\ <<"cwd", "config", "config.json">> \in find.files
    /\ <<"cwd", "", "config.json">> \in find.files
    /\ \A f \in find.files : f[3] = "config.json"

\* The calls of the loop of handleBothTokensRequest.
LoopCalls(q) ==
    Called(q, "TrackGlobalDistribution") \cup Called(q, "GetBalance")
        \cup Called(q, "TransferTokens")

\* C33: handleBothTokensRequest processes the tokens in the order of
\* GetSupportedTokens and stops at the first token that fails a step (global
\* cap, balance read, balance guard, transfer): a token is processed only
\* after every token before it was transferred, no token after the failing
\* one has a TrackGlobalDistribution, GetBalance or TransferTokens call, and
\* a request none of whose tokens was transferred is answered with an error
\* and makes no commit call (daily units, throttle markers).
C33_BothStopsAtFirstFailure ==
    \A r \in Slots :
        LET q == req[r]
            tokens == GetSupportedTokens(ChainOf(q))
        IN q.token = "BOTH" =>
            /\ \A i, j \in 1..Len(tokens) :
                  i < j =>
                    /\ tokens[j] \in LoopCalls(q) =>
                          tokens[i] \in Calls(q, "TransferTokens", "ok")
                    /\ (\E e \in FailedGates(q) :
                            e[2] = tokens[i] /\ Rank(e[1]) >= 60) =>
                          tokens[j] \notin LoopCalls(q)
            /\ q.failed # "" =>
                  q.pc \notin {"bothGlobal", "bothBalance", "bothTransfer"}
            /\ (q.pc = "done" /\ LoopCalls(q) # {}
                    /\ Calls(q, "TransferTokens", "ok") = {}) =>
                  /\ q.status = 500
                  /\ Commits(q) = {}
                  /\ q.charged = 0

\* C33 happens: a BOTH request on Starknet was answered with an error after
\* its first token was refused; nothing was done for the second.
C33_Witness ==
    \E r \in Slots :
        /\ req[r].pc = "done" /\ req[r].token = "BOTH"
        /\ req[r].failed = "STRK" /\ req[r].status = 500
        /\ \E e \in FailedGates(req[r]) : e[2] = "STRK" /\ e[3] = "deny"
        /\ "ETH" \notin LoopCalls(req[r])

\* C34: every challenge GetChallenge returns has been stored first.  An
\* invocation whose rate-limit check denies or fails generates and stores no
\* challenge; one whose StoreChallenge fails answers with an error and never
\* increments the issuance counter; an invocation answers 200 only with a
\* challenge that is in the store, and the counter is incremented only by an
\* invocation whose challenge is in the store.
C34_ReturnedChallengeStored ==
    [][\A s \in IssuerSlots :
        LET i == gc.call[s]
            j == gc'.call[s]
        IN /\ (i.pc = "idle" /\ j.pc = "done") =>
                /\ j.status \in {429, 500} /\ j.id = 0
                /\ issued' = issued /\ chal' = chal /\ chalCount' = chalCount
           /\ (i.pc = "store" /\ j.pc = "done") =>
                /\ j.status = 500
                /\ chal' = chal /\ chalCount' = chalCount
           /\ (j.pc = "done" /\ j.status = 200) =>
                j.id # 0 /\ chal'[j.id] > 0
           /\ (i.pc = "incr" /\ j # i) => chal[i.id] > 0
           /\ chalCount' # chalCount => \E u \in IssuerSlots : gc.call[u].pc = "incr"
      ]_vars

\* C34 happens: StoreChallenge failed for a generated challenge; the
\* invocation answered 500, the challenge is not in the store and the
\* caller's issuance counter is still zero.
C34_Witness ==
    \E s \in IssuerSlots :
        /\ gc.call[s].pc = "done" /\ gc.call[s].status = 500
        /\ gc.call[s].id # 0 /\ chal[gc.call[s].id] = 0
        /\ chalCount[gc.call[s].ip].n = 0

\* C35: a submission whose solution fails PoW verification leaves the store
\* as it is: the challenge stays, no counter or marker changes and no
\* DeleteChallenge call is made; a handler removes a challenge from the store
\* only in the DeleteChallenge call of an invocation whose solution for it
\* was verified.
C35_FailedPoWKeepsChallenge ==
    [][/\ \A r \in Slots :
            LET q == req[r]
                p == req'[r]
            IN (/\ q.pc = "challenge" /\ p.pc = "done"
                /\ p.msg = "Invalid proof of work solution") =>
                  /\ p.status = 400
                  /\ "" \in Calls(p, "VerifyPoW", "deny")
                  /\ Called(p, "DeleteChallenge") = {}
                  /\ storeVars' = storeVars
                  /\ balance' = balance /\ accepted' = accepted
                  /\ \E c \in ChalIds : chal'[c] > 0
       /\ \A c \in ChalIds :
            (HandlerStep /\ chal[c] > 0 /\ chal'[c] = 0) =>
                \E r \in Slots :
                    /\ req[r].pc = "delete" /\ req[r].chal = c
                    /\ "" \in Calls(req[r], "VerifyPoW", "ok")
      ]_vars

\* C35 happens: one challenge was issued; a submission with a wrong nonce
\* was rejected and a submission that solves the challenge was accepted.
C35_Witness ==
    /\ Cardinality(issued) = 1
    /\ faults = 0
    /\ \E r1, r2 \in Slots :
        /\ req[r1].pc = "done" /\ req[r1].msg = "Invalid proof of work solution"
        /\ "" \in Calls(req[r2], "VerifyPoW", "ok")
        /\ \A c \in issued : accepted[c] = 1

\* C36: the status query is consistent with admission: whenever GetStatus
\* answers, it reports CanRequest = true if and only if a single-token
\* request of the caller would pass the daily quota gate in the same store
\* state (no cooldown marker and used + 1 <= daily cap).
C36_StatusMatchesDailyGate ==
    (query.pc = "done" /\ query.op = "GetStatus" /\ query.status = 200) =>
        LET res == CheckIPDailyLimit(query.ip)
            passes == /\ ~(~res.canRequest /\ res.cooldownEnd # 0)
                      /\ ~QuotaExceeded(res.canRequest, res.currentCount,
                                        RequestCost("ETH"))
        IN /\ query.body.canRequest <=> passes
           /\ query.body.canRequest <=>
                (/\ cooldown[query.ip] = 0
                 /\ daily[query.ip].n + 1 <= MaxRequestsPerDayIP)

\* C36 happens: GetStatus reported CanRequest = false for a caller in
\* cooldown whose daily counter has expired.
C36_Witness ==
    /\ query.pc = "done" /\ query.op = "GetStatus" /\ query.status = 200
    /\ ~query.body.canRequest
    /\ cooldown[query.ip] > 0 /\ daily[query.ip].n = 0

\* C37: the query endpoints are read-only: a GetStatus, GetQuota, GetInfo or
\* Health call, whatever it answers, leaves every challenge, counter and
\* marker of the store and every balance unchanged, submits no transfer and
\* touches no running request.
C37_QueriesReadOnly ==
    [][(query.pc = "none" /\ query'.pc = "done") =>
            /\ storeVars' = storeVars
            /\ balance' = balance /\ xfers' = xfers
            /\ req' = req /\ accepted' = accepted
      ]_vars

\* C37 happens: GetQuota answered for a caller with daily units used and a
\* throttled token while a challenge was in the store.
C37_Witness ==
    /\ query.pc = "done" /\ query.op = "GetQuota" /\ query.status = 200
    /\ query.body.used > 0
    /\ \E e \in query.body.throttles : ~e[3]
    /\ \E c \in ChalIds : chal[c] > 0

\* C38: a request with an empty network field is treated as one naming the
\* default network (starknet, which is registered): it resolves to the same
\* chain and, in RequestTokens and handleBothTokensRequest alike, to the same
\* throttle key, so that among the caller's requests within an hour, with
\* the network named or left empty, at most one transfer is made per chain
\* and token.
C38_EmptyNetworkIsDefault ==
    /\ \A a \in Accounts : route.grants[a] <= 1
    /\ (route.network \in {"", "starknet"} /\ route.key # <<>>) =>
            /\ route.chain = "starknet"
            /\ route.key[2] = "starknet"
    /\ \A k \in route.marks : k[2] \in Chains

\* C38 happens: after a transfer of ETH on Starknet, a request for ETH with
\* the network left empty was rejected by the hourly throttle.
C38_Witness ==
    /\ route.pc = "done" /\ route.network = "" /\ route.result = "HOURLY LIMIT"
    /\ route.key[3] = "ETH"
    /\ route.grants[<<"starknet", "ETH">>] = 1
    /\ route.grants[<<"ethereum", "ETH">>] = 0

\* C39: WaitForTransaction returns nil only on a receipt whose status is
\* successful; a receipt with another status makes it return an error at
\* once; a failed receipt query returns nothing: the loop goes back to the
\* select and polls again.
C39_ReceiptDecides ==
    [][/\ (wait.pc = "receipt" /\ wait'.pc # "receipt") =>
            \/ /\ wait'.pc = "select"
               /\ wait'.result = ""
            \/ /\ wait'.pc = "returned"
               /\ wait.mined = "success" /\ wait'.result = "nil"
            \/ /\ wait'.pc = "returned"
               /\ wait.mined = "reverted" /\ wait'.result = "transaction failed"
       /\ (wait'.result = "nil" /\ wait.result # "nil") =>
            wait.pc = "receipt" /\ wait.mined = "success"
       /\ (wait.pc = "select" /\ wait'.pc = "returned") =>
            wait'.result = "ctx.Err"
      ]_vars

\* C39 happens: a receipt query failed and was polled again, and the receipt
\* of the reverted transaction made the wait return an error.
C39_Witness ==
    /\ wait.pc = "returned" /\ wait.result = "transaction failed"
    /\ wait.mined = "reverted" /\ wait.polls >= 1

\* C40: TransferTokens calls that run at once on one Ethereum client never
\* sign and submit transactions with the same account nonce.
C40_NoncesDistinct ==
    \A x, y \in eth.sent : x[2] = y[2] => x[1] = y[1]

====
